---------------------------- MODULE Spec2Model ----------------------------
(***************************************************************************)
(* A model of codesnap's import analyzer (src/codesnap/analyzer.py, class  *)
(* ImportAnalyzer).                                                        *)
(*                                                                         *)
(* Module names, import strings and path components are character strings, *)
(* handled character by character (Len, SubSeq and \o on strings), and a   *)
(* path is the sequence of its components, so that splitting on dots,      *)
(* suffix replacement, normalisation and the regular expressions of the    *)
(* orphan filter are computed, not assumed.                                *)
(*                                                                         *)
(* The text of a file is the sequence of its import statements, each with  *)
(* the shape one of the analyzer's regular expressions matches and the     *)
(* string its group 1 captures.                                            *)
(***************************************************************************)
EXTENDS Integers, Sequences, FiniteSets, TLC

VARIABLES
    fs,                \* the directory layout and the files' texts
    root_path,         \* ImportAnalyzer.root_path
    imports_by_file,   \* ImportAnalyzer.imports_by_file   (insertion-ordered dict)
    imported_by,       \* ImportAnalyzer.imported_by       (insertion-ordered dict)
    external_imports,  \* ImportAnalyzer.external_imports  (insertion-ordered dict)
    call,              \* the last call made on the analyzer and its arguments
    ret,               \* what that call returned
    results            \* the results of analyze_project the caller has kept

vars ==
    <<fs, root_path, imports_by_file, imported_by, external_imports, call, ret,
      results>>

---------------------------------------------------------------------------
(* Strings                                                                 *)

\* The characters in code-point order, as Python compares them.
Alphabet == "-./0123456789ABCDEFGHIJKLMNOPQRSTUVWXYZ_abcdefghijklmnopqrstuvwxyz"

\* F applied to the value of e: a local name for a value used more than once.
With(e, F(_)) == F(e)

Char(s, i) == SubSeq(s, i, i)

Ord(c) == CHOOSE i \in 1..Len(Alphabet) : Char(Alphabet, i) = c

StartsWith(s, p) == Len(p) <= Len(s) /\ SubSeq(s, 1, Len(p)) = p

EndsWith(s, p) == Len(p) <= Len(s) /\ SubSeq(s, Len(s) - Len(p) + 1, Len(s)) = p

Contains(s, p) ==
    \E i \in 1..(Len(s) - Len(p) + 1) : SubSeq(s, i, i + Len(p) - 1) = p

\* str < str of Python: the first differing character decides, a proper
\* prefix is smaller.
RECURSIVE StrLess(_, _)
StrLess(s, t) ==
    IF Len(t) = 0 THEN FALSE
    ELSE IF Len(s) = 0 THEN TRUE
    ELSE IF Char(s, 1) = Char(t, 1) THEN StrLess(Tail(s), Tail(t))
    ELSE Ord(Char(s, 1)) < Ord(Char(t, 1))

\* str.find(c) for a single character c: its first position, 0 when absent.
FindFrom(s, c, i) ==
    With({j \in i..Len(s) : Char(s, j) = c}, LAMBDA found :
        IF found = {} THEN 0 ELSE CHOOSE j \in found : \A k \in found : j <= k)

\* str.rfind(c): the last position, 0 when absent.
RFindFrom(s, c, i) ==
    With({j \in 1..i : Char(s, j) = c}, LAMBDA found :
        IF found = {} THEN 0 ELSE CHOOSE j \in found : \A k \in found : j >= k)

\* str.split(c): the pieces between the occurrences of c, empty pieces kept.
RECURSIVE Split(_, _)
Split(s, c) ==
    With(FindFrom(s, c, 1), LAMBDA i :
        IF i = 0 THEN <<s>>
        ELSE <<SubSeq(s, 1, i - 1)>> \o Split(SubSeq(s, i + 1, Len(s)), c))

\* str.replace(c, d) for single characters.
RECURSIVE Replace(_, _, _)
Replace(s, c, d) ==
    IF Len(s) = 0 THEN ""
    ELSE (IF Char(s, 1) = c THEN d ELSE Char(s, 1)) \o Replace(Tail(s), c, d)

\* c.join(parts)
RECURSIVE JoinStr(_, _)
JoinStr(parts, c) ==
    IF Len(parts) = 0 THEN ""
    ELSE IF Len(parts) = 1 THEN parts[1]
    ELSE parts[1] \o c \o JoinStr(Tail(parts), c)

\* The members of a sequence.
Range(q) == {q[i] : i \in 1..Len(q)}

\* The number of positions of q holding x.
Count(q, x) == Cardinality({i \in 1..Len(q) : q[i] = x})

---------------------------------------------------------------------------
(* pathlib.Path, for absolute POSIX paths.  A path is the sequence of its  *)
(* components below "/", as pathlib keeps it; the empty sequence is "/".   *)

\* Path | None: no path.
None == <<"<None>">>

\* The ValueError a Path method raised, in place of the path it would return.
ValueError == <<"<ValueError>">>

\* Path(s): empty and "." components are dropped, ".." components are kept.
Path(s) == SelectSeq(Split(s, "/"), LAMBDA x : x # "" /\ x # ".")

\* str(path)
Str(p) == "/" \o JoinStr(p, "/")

\* Path.parent: the parent of "/" is "/".
Parent(p) == IF Len(p) = 0 THEN p ELSE SubSeq(p, 1, Len(p) - 1)

\* Path.name: empty for "/".
Name(p) == IF Len(p) = 0 THEN "" ELSE p[Len(p)]

\* Path.__truediv__: p / s, where an absolute s replaces p.
JoinPath(p, s) == IF StartsWith(s, "/") THEN Path(s) ELSE p \o Path(s)

\* Path.suffix: from the last dot of the name, unless that dot starts or
\* ends the name.
Suffix(p) ==
    With(Name(p), LAMBDA name :
    With(RFindFrom(name, ".", Len(name)), LAMBDA i :
        IF 1 < i /\ i < Len(name) THEN SubSeq(name, i, Len(name)) ELSE ""))

\* Path.with_suffix(ext): the suffix replaced, or ext appended when the name
\* has none; ValueError for a path without a name.
WithSuffix(p, ext) ==
    With(Name(p), LAMBDA name :
        IF name = "" THEN ValueError
        ELSE Append(Parent(p), SubSeq(name, 1, Len(name) - Len(Suffix(p))) \o ext))

\* p is base or lies below it.
IsRelativeTo(p, base) == Len(base) <= Len(p) /\ SubSeq(p, 1, Len(base)) = base

\* str(p.relative_to(base)), for a p that is base or lies below it.
RelativeTo(p, base) ==
    IF Len(p) = Len(base) THEN "."
    ELSE JoinStr(SubSeq(p, Len(base) + 1, Len(p)), "/")

\* os.path.normpath of an absolute path: "." and empty components dropped,
\* each ".." removes the component before it, and stays at "/" there.
RECURSIVE NormParts(_, _)
NormParts(done, todo) ==
    IF Len(todo) = 0 THEN done
    ELSE IF Head(todo) = "" \/ Head(todo) = "." THEN NormParts(done, Tail(todo))
    ELSE IF Head(todo) = ".."
         THEN NormParts(IF Len(done) = 0 THEN done
                        ELSE SubSeq(done, 1, Len(done) - 1), Tail(todo))
    ELSE NormParts(Append(done, Head(todo)), Tail(todo))

NormPath(s) == "/" \o JoinStr(NormParts(<<>>, Split(s, "/")), "/")

\* os.path.join(a, b): an absolute b replaces a.
OsJoin(a, b) ==
    IF StartsWith(b, "/") THEN b
    ELSE IF EndsWith(a, "/") THEN a \o b
    ELSE a \o "/" \o b

---------------------------------------------------------------------------
(* The file system                                                         *)

\* A layout holds the text of each regular file, by its path, and the set of
\* the directories.
Ancestors(p) == {SubSeq(p, 1, n) : n \in 0..(Len(p) - 1)}

\* The layout of the given files: the directories are their ancestors.
Layout(text) ==
    [text |-> text, dirs |-> UNION {Ancestors(p) : p \in DOMAIN text}]

Files(layout) == DOMAIN layout.text

\* Path.exists, Path.is_file, Path.is_dir
Exists(layout, p) == p \in Files(layout) \/ p \in layout.dirs

IsFile(layout, p) == p \in Files(layout)

IsDir(layout, p) == p \in layout.dirs

\* The text of a file: whether read_text succeeds, and the import statements
\* of the text in the order they stand in it.
Text(readable, stmts) == [readable |-> readable, stmts |-> stmts]

Stmt(kind, arg) == [kind |-> kind, arg |-> arg]

---------------------------------------------------------------------------
(* Insertion-ordered dictionaries: a sequence of <<key, value>> pairs with *)
(* distinct keys, in the order the keys were first inserted.               *)

EmptyDict == <<>>

Keys(d) == [i \in 1..Len(d) |-> d[i][1]]

KeySet(d) == {d[i][1] : i \in 1..Len(d)}

HasKey(d, k) == k \in KeySet(d)

Get(d, k) == d[CHOOSE i \in 1..Len(d) : d[i][1] = k][2]

\* dict.get(k, default)
GetOr(d, k, default) == IF HasKey(d, k) THEN Get(d, k) ELSE default

\* d[k] = v: a new key goes to the end, an old key keeps its place.
Put(d, k, v) ==
    IF HasKey(d, k)
    THEN [i \in 1..Len(d) |-> IF d[i][1] = k THEN <<k, v>> ELSE d[i]]
    ELSE Append(d, <<k, v>>)

\* The three maps of an analyzer.
Maps(fwd, rev, ext) ==
    [imports_by_file |-> fwd, imported_by |-> rev, external_imports |-> ext]

---------------------------------------------------------------------------
(* Path resolution                                                         *)

\* The leading empty pieces of module_path.split("."), counted and removed.
RECURSIVE StripDots(_, _)
StripDots(parts, dot_count) ==
    IF Len(parts) > 0 /\ Head(parts) = ""
    THEN StripDots(Tail(parts), dot_count + 1)
    ELSE [parts |-> parts, dot_count |-> dot_count]

RECURSIVE Ascend(_, _)
Ascend(dir, n) == IF n <= 0 THEN dir ELSE Ascend(Parent(dir), n - 1)

RECURSIVE Descend(_, _)
Descend(dir, parts) ==
    IF Len(parts) = 0 THEN dir ELSE Descend(JoinPath(dir, Head(parts)), Tail(parts))

\* target.parent / f"{target.name}.py"
PyFileOf(target) == JoinPath(Parent(target), Name(target) \o ".py")

InitFileOf(target) == JoinPath(target, "__init__.py")

is_internal_import(layout, root, module_path, file_path) ==
    IF StartsWith(module_path, ".") THEN TRUE
    ELSE With(JoinPath(root, Replace(module_path, ".", "/")), LAMBDA potential_path :
             \/ Exists(layout, potential_path)
             \/ Exists(layout, PyFileOf(potential_path))
             \/ Exists(layout, InitFileOf(potential_path)))

\* The package file returned without a look at the file system.
FirstFileInitUnchecked(layout, py_file, init_file) ==
    IF Exists(layout, py_file) THEN py_file ELSE init_file

\* The first of the candidate files that exists, None when none does.
FirstFile(layout, py_file, init_file) ==
    IF Exists(layout, py_file) THEN py_file
    ELSE IF Exists(layout, init_file) THEN init_file
    ELSE None

module_to_file_path_relative(layout, root, module_path, file_path) ==
    With(StripDots(Split(module_path, "."), 0), LAMBDA s :
    With(Ascend(Parent(file_path), s.dot_count - 1), LAMBDA current_dir :
        IF Len(s.parts) = 0 THEN InitFileOf(current_dir)
        ELSE With(Descend(current_dir, s.parts), LAMBDA target :
                 FirstFile(layout, PyFileOf(target), InitFileOf(target)))))

\* The module file tried before the package.
module_before_package(layout, root, module_path, file_path) ==
    With(JoinPath(root, Replace(module_path, ".", "/")), LAMBDA target :
        IF Exists(layout, PyFileOf(target)) THEN PyFileOf(target)
        ELSE IF /\ Exists(layout, target)
                /\ IsDir(layout, target)
                /\ Exists(layout, InitFileOf(target))
        THEN InitFileOf(target)
        ELSE None)

module_to_file_path_absolute(layout, root, module_path, file_path) ==
    With(JoinPath(root, Replace(module_path, ".", "/")), LAMBDA target :
        IF /\ Exists(layout, target)
           /\ IsDir(layout, target)
           /\ Exists(layout, InitFileOf(target))
        THEN InitFileOf(target)
        ELSE With(PyFileOf(target), LAMBDA py_file :
                 IF Exists(layout, py_file) THEN py_file ELSE None))

module_to_file_path(layout, root, module_path, file_path) ==
    IF StartsWith(module_path, ".")
    THEN module_to_file_path_relative(layout, root, module_path, file_path)
    ELSE module_to_file_path_absolute(layout, root, module_path, file_path)

JsExtensions == <<".js", ".jsx", ".ts", ".tsx", ".json">>

\* The first candidate of the sequence that exists; a candidate that could not
\* be built (ValueError) raises when its turn comes.
RECURSIVE FirstExisting(_, _)
FirstExisting(layout, candidates) ==
    IF Len(candidates) = 0 THEN None
    ELSE IF Head(candidates) = ValueError THEN ValueError
    ELSE IF Exists(layout, Head(candidates)) THEN Head(candidates)
    ELSE FirstExisting(layout, Tail(candidates))

\* The extension candidates tried before the path itself.
js_extension_before_file(layout, root, import_path, file_path) ==
    IF StartsWith(import_path, ".")
    THEN With(Path(NormPath(OsJoin(Str(Parent(file_path)), import_path))), LAMBDA target :
             With(FirstExisting(layout,
                      [i \in 1..Len(JsExtensions) |->
                          WithSuffix(target, JsExtensions[i])]), LAMBDA with_ext :
                 IF with_ext # None THEN with_ext
                 ELSE IF Exists(layout, target) /\ IsFile(layout, target) THEN target
                 ELSE FirstExisting(layout,
                          [i \in 1..Len(JsExtensions) |->
                              JoinPath(target, "index" \o JsExtensions[i])])))
    ELSE None

js_import_to_file_path(layout, root, import_path, file_path) ==
    IF StartsWith(import_path, ".")
    THEN With(Path(NormPath(OsJoin(Str(Parent(file_path)), import_path))), LAMBDA target :
             IF Exists(layout, target) /\ IsFile(layout, target) THEN target
             ELSE With(FirstExisting(layout,
                          [i \in 1..Len(JsExtensions) |->
                              WithSuffix(target, JsExtensions[i])]), LAMBDA with_ext :
                 IF with_ext # None THEN with_ext
                 ELSE FirstExisting(layout,
                          [i \in 1..Len(JsExtensions) |->
                              JoinPath(target, "index" \o JsExtensions[i])])))
    ELSE None

---------------------------------------------------------------------------
(* Extraction                                                              *)

\* What a file's analysis gives: raised says that an exception left the
\* function instead.
Extracted(internal, external) ==
    [raised |-> FALSE, internal |-> internal, external |-> external]

Raised == [raised |-> TRUE, internal |-> <<>>, external |-> {}]

EmptyResult == Extracted(<<>>, {})

\* The regular expressions of each language, by the shape of statement they
\* match, in the order the analyzer applies them.
PyPatterns == <<"import", "from">>

\* The patterns without the one of dynamic(...).
JsPatternsWithoutDynamic == <<"import_from", "require", "import">>

JsPatterns == <<"import_from", "require", "import", "dynamic">>

\* re.finditer for each pattern in turn: the captured strings, pattern by
\* pattern, each pattern's in the order of the text.
RECURSIVE MatchesOf(_, _)
MatchesOf(patterns, stmts) ==
    IF Len(patterns) = 0 THEN <<>>
    ELSE LET hits == SelectSeq(stmts, LAMBDA st : st.kind = Head(patterns))
         IN  [i \in 1..Len(hits) |-> hits[i].arg] \o MatchesOf(Tail(patterns), stmts)

\* The resolved file appended as it is, not relative to the root.
AddAbsolute(acc, root, import_file) ==
    IF import_file = None THEN acc
    ELSE IF import_file = ValueError THEN Raised
    ELSE [acc EXCEPT !.internal = Append(@, Str(import_file))]

\* if import_file: internal_imports.append(str(import_file.relative_to(
\* self.root_path))), where relative_to raises for a file outside the root.
AddInternal(acc, root, import_file) ==
    IF import_file = None THEN acc
    ELSE IF import_file = ValueError \/ ~IsRelativeTo(import_file, root) THEN Raised
    ELSE [acc EXCEPT !.internal = Append(@, RelativeTo(import_file, root))]

\* An internal import that resolves to no file recorded as external.
RECURSIVE PyLoopUnresolvedExternal(_, _, _, _, _)
PyLoopUnresolvedExternal(layout, root, file_path, matches, acc) ==
    IF acc.raised \/ Len(matches) = 0 THEN acc
    ELSE PyLoopUnresolvedExternal(layout, root, file_path, Tail(matches),
             With(Head(matches), LAMBDA module_path :
             With(module_to_file_path(layout, root, module_path, file_path),
                  LAMBDA import_file :
                 IF /\ is_internal_import(layout, root, module_path, file_path)
                    /\ import_file # None
                 THEN AddInternal(acc, root, import_file)
                 ELSE [acc EXCEPT !.external = @ \cup {module_path}])))

RECURSIVE PyLoop(_, _, _, _, _)
PyLoop(layout, root, file_path, matches, acc) ==
    IF acc.raised \/ Len(matches) = 0 THEN acc
    ELSE PyLoop(layout, root, file_path, Tail(matches),
             With(Head(matches), LAMBDA module_path :
                 IF is_internal_import(layout, root, module_path, file_path)
                 THEN AddInternal(acc, root,
                          module_to_file_path(layout, root, module_path, file_path))
                 ELSE [acc EXCEPT !.external = @ \cup {module_path}]))

analyze_python_imports(layout, root, file_path, content) ==
    PyLoop(layout, root, file_path, MatchesOf(PyPatterns, content), EmptyResult)

\* Every path that does not start with "." recorded as external.
RECURSIVE JsLoopDotOnly(_, _, _, _, _)
JsLoopDotOnly(layout, root, file_path, matches, acc) ==
    IF acc.raised \/ Len(matches) = 0 THEN acc
    ELSE JsLoopDotOnly(layout, root, file_path, Tail(matches),
             With(Head(matches), LAMBDA module_path :
                 IF ~StartsWith(module_path, ".")
                 THEN [acc EXCEPT !.external = @ \cup {module_path}]
                 ELSE AddInternal(acc, root,
                          js_import_to_file_path(layout, root, module_path, file_path))))

RECURSIVE JsLoop(_, _, _, _, _)
JsLoop(layout, root, file_path, matches, acc) ==
    IF acc.raised \/ Len(matches) = 0 THEN acc
    ELSE JsLoop(layout, root, file_path, Tail(matches),
             With(Head(matches), LAMBDA module_path :
                 IF ~StartsWith(module_path, ".") /\ ~StartsWith(module_path, "/")
                 THEN [acc EXCEPT !.external = @ \cup {module_path}]
                 ELSE AddInternal(acc, root,
                          js_import_to_file_path(layout, root, module_path, file_path))))

analyze_js_imports(layout, root, file_path, content) ==
    JsLoop(layout, root, file_path, MatchesOf(JsPatterns, content), EmptyResult)

\* file_path.read_text succeeds on a regular file whose text can be decoded.
CanRead(layout, file_path) ==
    IsFile(layout, file_path) /\ layout.text[file_path].readable

\* The body of analyze_file's try block: an exception leaves it.
analyze_file_body(layout, root, file_path) ==
    IF ~CanRead(layout, file_path) THEN Raised
    ELSE With(layout.text[file_path].stmts, LAMBDA content :
         With(Suffix(file_path), LAMBDA file_ext :
             IF file_ext \in {".py", ".pyi"}
             THEN analyze_python_imports(layout, root, file_path, content)
             ELSE IF file_ext \in {".js", ".jsx", ".ts", ".tsx"}
             THEN analyze_js_imports(layout, root, file_path, content)
             ELSE EmptyResult))

\* The try block without its except clause.
analyze_file_unguarded(layout, root, file_path) ==
    analyze_file_body(layout, root, file_path)

\* except Exception: return [], set()
analyze_file(layout, root, file_path) ==
    With(analyze_file_body(layout, root, file_path), LAMBDA r :
        IF r.raised THEN EmptyResult ELSE r)

---------------------------------------------------------------------------
(* Graph analytics                                                         *)

\* The state of one run of cycle detection: the set visited and the list
\* circular_deps, both shared by every call of dfs.
RECURSIVE dfs(_, _, _, _)
RECURSIVE dfs_imports(_, _, _, _)
\* The test of visited made before the test of the stack.
dfs_visited_first(forward, file_path, path, st) ==
    IF file_path \in st.visited THEN st
    ELSE IF file_path \in Range(path)
    THEN [st EXCEPT !.circular_deps = Append(@, path \o <<file_path>>)]
    ELSE dfs_imports(forward, GetOr(forward, file_path, <<>>),
                     Append(path, file_path),
                     [st EXCEPT !.visited = @ \cup {file_path}])

\* A report of the whole stack in place of its part from cycle_start.
dfs_whole_stack(forward, file_path, path, st) ==
    IF file_path \in Range(path)
    THEN [st EXCEPT !.circular_deps = Append(@, path \o <<file_path>>)]
    ELSE IF file_path \in st.visited THEN st
    ELSE dfs_imports(forward, GetOr(forward, file_path, <<>>),
                     Append(path, file_path),
                     [st EXCEPT !.visited = @ \cup {file_path}])

dfs(forward, file_path, path, st) ==
    IF file_path \in Range(path)
    THEN LET cycle_start == CHOOSE i \in 1..Len(path) :
                 /\ path[i] = file_path
                 /\ \A j \in 1..(i - 1) : path[j] # file_path
         IN  [st EXCEPT !.circular_deps =
                 Append(@, SubSeq(path, cycle_start, Len(path)) \o <<file_path>>)]
    ELSE IF file_path \in st.visited THEN st
    ELSE dfs_imports(forward, GetOr(forward, file_path, <<>>),
                     Append(path, file_path),
                     [st EXCEPT !.visited = @ \cup {file_path}])

\* A search that follows the first import of a file only.
dfs_first_import(forward, imports, new_path, st) ==
    IF Len(imports) = 0 THEN st
    ELSE dfs(forward, Head(imports), new_path, st)

\* for imported in self.imports_by_file.get(file_path, []): dfs(imported, new_path)
dfs_imports(forward, imports, new_path, st) ==
    IF Len(imports) = 0 THEN st
    ELSE dfs_imports(forward, Tail(imports), new_path,
                     dfs(forward, Head(imports), new_path, st))

\* A search started from the first key only.
dfs_first_root(forward, roots, st) ==
    IF Len(roots) = 0 THEN st ELSE dfs(forward, Head(roots), <<>>, st)

\* for file_path in self.imports_by_file: if file_path not in visited: dfs(file_path, [])
RECURSIVE dfs_roots(_, _, _)
dfs_roots(forward, roots, st) ==
    IF Len(roots) = 0 THEN st
    ELSE dfs_roots(forward, Tail(roots),
                   IF Head(roots) \in st.visited THEN st
                   ELSE dfs(forward, Head(roots), <<>>, st))

detect_circular_dependencies(forward) ==
    dfs_roots(forward, Keys(forward),
              [visited |-> {}, circular_deps |-> <<>>]).circular_deps

\* sorted(strings): ascending in code-point order.
RECURSIVE SortedStrings(_)
SortedStrings(S) ==
    IF S = {} THEN <<>>
    ELSE With(CHOOSE x \in S : \A y \in S \ {x} : StrLess(x, y), LAMBDA least :
             <<least>> \o SortedStrings(S \ {least}))

\* ^stem\.(ext|...)$ searched in the whole string.
EntryPattern(stem, exts) == [stem |-> stem, exts |-> exts]

entry_point_patterns ==
    << EntryPattern("index", {"js", "ts", "jsx", "tsx"}),
       EntryPattern("main", {"js", "ts", "jsx", "tsx", "py"}),
       EntryPattern("app", {"js", "ts", "jsx", "tsx"}),
       EntryPattern("server", {"js", "ts", "jsx", "tsx", "py"}) >>

MatchesEntry(pattern, file) ==
    \E e \in pattern.exts : file = pattern.stem \o "." \o e

\* A literal searched anywhere in the string, or only at its end (literal$).
ConfigPattern(literal, at_end) == [literal |-> literal, at_end |-> at_end]

config_patterns ==
    << ConfigPattern("package.json", TRUE),
       ConfigPattern("tsconfig.json", TRUE),
       ConfigPattern(".eslintrc", FALSE),
       ConfigPattern(".prettierrc", FALSE),
       ConfigPattern("pyproject.toml", TRUE),
       ConfigPattern("setup.py", TRUE),
       ConfigPattern("requirements.txt", TRUE),
       ConfigPattern("README.md", TRUE) >>

MatchesConfig(pattern, file) ==
    IF pattern.at_end THEN EndsWith(file, pattern.literal)
    ELSE Contains(file, pattern.literal)

is_entry(file) ==
    \E i \in 1..Len(entry_point_patterns) : MatchesEntry(entry_point_patterns[i], file)

is_conf(file) ==
    \E i \in 1..Len(config_patterns) : MatchesConfig(config_patterns[i], file)

\* The union of the values of the forward map.
imported_files(forward) == UNION {Range(forward[i][2]) : i \in 1..Len(forward)}

find_orphaned_files(layout, root, forward, all_files) ==
    LET all_file_paths ==
            {RelativeTo(all_files[i], root) :
                i \in {j \in 1..Len(all_files) : IsFile(layout, all_files[j])}}
        orphaned == all_file_paths \ imported_files(forward)
    IN  SortedStrings({file \in orphaned : ~is_entry(file) /\ ~is_conf(file)})

\* An insertion that puts an item before the items of its own score.
RECURSIVE InsertBeforeEqual(_, _)
InsertBeforeEqual(sorted, item) ==
    IF Len(sorted) = 0 THEN <<item>>
    ELSE IF Head(sorted)[2] > item[2]
         THEN <<Head(sorted)>> \o InsertBeforeEqual(Tail(sorted), item)
    ELSE <<item>> \o sorted

\* sorted(items, key=score, reverse=True): descending, equal scores in their
\* original order.
RECURSIVE InsertByScore(_, _)
InsertByScore(sorted, item) ==
    IF Len(sorted) = 0 THEN <<item>>
    ELSE IF Head(sorted)[2] >= item[2]
         THEN <<Head(sorted)>> \o InsertByScore(Tail(sorted), item)
    ELSE <<item>> \o sorted

RECURSIVE SortedByScore(_)
SortedByScore(items) ==
    IF Len(items) = 0 THEN <<>>
    ELSE InsertByScore(SortedByScore(SubSeq(items, 1, Len(items) - 1)),
                       items[Len(items)])

CoreLimit == 10

\* centrality, then core_files[:10]
core_files_of(reverse) ==
    With([i \in 1..Len(reverse) |-> <<reverse[i][1], Len(reverse[i][2])>>],
         LAMBDA centrality :
    With(SortedByScore(centrality), LAMBDA core_files :
        SubSeq(core_files, 1, IF Len(core_files) < CoreLimit THEN Len(core_files)
                                ELSE CoreLimit)))

---------------------------------------------------------------------------
(* The graph builder                                                       *)

\* A reset that is forgotten: the maps of the earlier run stay.
keep_maps(maps) == maps

\* self.imports_by_file = {}; self.imported_by = {}; self.external_imports = {}
reset_maps(maps) == Maps(EmptyDict, EmptyDict, EmptyDict)

\* self.imported_by[imported_file].append(relative_path), for each import.
RECURSIVE add_importers(_, _, _)
add_importers(reverse, internal_imports, relative_path) ==
    IF Len(internal_imports) = 0 THEN reverse
    ELSE add_importers(
             Put(reverse, Head(internal_imports),
                 Append(GetOr(reverse, Head(internal_imports), <<>>), relative_path)),
             Tail(internal_imports), relative_path)

\* A file recorded whether or not its analysis found anything.
record_every_file(maps, relative_path, r) ==
    Maps(Put(maps.imports_by_file, relative_path, r.internal),
         add_importers(maps.imported_by, r.internal, relative_path),
         Put(maps.external_imports, relative_path, r.external))

\* What analyze_project records for a file whose analysis gave r.
record_file(maps, relative_path, r) ==
    IF Len(r.internal) > 0 \/ r.external # {}
    THEN Maps(Put(maps.imports_by_file, relative_path, r.internal),
              add_importers(maps.imported_by, r.internal, relative_path),
              Put(maps.external_imports, relative_path, r.external))
    ELSE maps

\* The loop over files: the maps built, and whether an exception ended it.
RECURSIVE scan_files(_, _, _, _)
scan_files(layout, root, files, b) ==
    IF b.raised \/ Len(files) = 0 THEN b
    ELSE With(Head(files), LAMBDA file_path :
             IF ~IsFile(layout, file_path)
             THEN scan_files(layout, root, Tail(files), b)
             ELSE IF ~IsRelativeTo(file_path, root)
             THEN [b EXCEPT !.raised = TRUE]
             ELSE With(analyze_file(layout, root, file_path), LAMBDA r :
                 IF r.raised THEN [b EXCEPT !.raised = TRUE]
                 ELSE scan_files(layout, root, Tail(files),
                          [b EXCEPT !.maps =
                              record_file(@, RelativeTo(file_path, root), r)])))

\* The dict analyze_project returns.
AnalysisResult(maps, core_files, circular_deps, orphaned) ==
    [ imports_by_file |-> maps.imports_by_file,
      imported_by |-> maps.imported_by,
      external_imports |-> maps.external_imports,
      core_files |-> core_files,
      circular_dependencies |-> circular_deps,
      orphaned_files |-> orphaned ]

\* What a call on the analyzer gives back: raised says that an exception left
\* the call instead of a value.
Returned(value) == [raised |-> FALSE, value |-> value]

Threw == [raised |-> TRUE, value |-> <<>>]

\* analyze_project on an analyzer whose maps are prev: the maps it leaves in
\* the analyzer and what it returns.
analyze_project(layout, root, prev, files) ==
    With(scan_files(layout, root, files,
                    [raised |-> FALSE, maps |-> reset_maps(prev)]), LAMBDA b :
        [ maps |-> b.maps,
          ret |-> IF b.raised THEN Threw
                  ELSE Returned(AnalysisResult(
                           b.maps,
                           core_files_of(b.maps.imported_by),
                           detect_circular_dependencies(b.maps.imports_by_file),
                           find_orphaned_files(layout, root,
                                               b.maps.imports_by_file, files))) ])

---------------------------------------------------------------------------
(* Projects: a layout under the root /r and the listing of its paths that  *)
(* a caller passes; candidates are the paths of the listing.               *)

Root == Path("/r")

Project(layout, listing) ==
    [layout |-> layout, listing |-> listing, candidates |-> Range(listing)]

Readable(stmts) == Text(TRUE, stmts)

Unreadable(stmts) == Text(FALSE, stmts)

\* main.py imports utils and helpers, utils imports os.
EndToEndLayout ==
    Layout(
        Path("/r/main.py") :> Readable(<<Stmt("import", "utils"), Stmt("from", "helpers")>>)
     @@ Path("/r/utils.py") :> Readable(<<Stmt("import", "os")>>)
     @@ Path("/r/helpers.py") :> Readable(<<>>))

EndToEndProject ==
    Project(EndToEndLayout, <<Path("/r/main.py"), Path("/r/utils.py"), Path("/r/helpers.py")>>)

\* A file that imports itself and imports another file twice, a file nothing
\* imports, and a package directory.
SelfImportProject ==
    Project(
        Layout(
            Path("/r/a.py") :> Readable(<<Stmt("import", "a"), Stmt("import", "b"),
                                    Stmt("from", "b")>>)
         @@ Path("/r/b.py") :> Readable(<<Stmt("import", "sys"), Stmt("from", "..")>>)
         @@ Path("/r/orphan_module.py") :> Readable(<<>>)
         @@ Path("/r/pkg/__init__.py") :> Readable(<<>>)),
        <<Path("/r/pkg"), Path("/r/orphan_module.py"), Path("/r/a.py"), Path("/r/b.py")>>)

\* A file that cannot be decoded, a file of an unsupported extension, and a
\* file with a relative import that leaves the root.
FailingFilesProject ==
    Project(
        Layout(
            Path("/r/c.py") :> Unreadable(<<Stmt("import", "d")>>)
         @@ Path("/r/notes.txt") :> Readable(<<Stmt("import", "d")>>)
         @@ Path("/r/d.py") :> Readable(<<Stmt("import", "c"), Stmt("import", "json")>>)
         @@ Path("/r/top.py") :> Readable(<<Stmt("import", "d"), Stmt("from", "..")>>)),
        <<Path("/r/c.py"), Path("/r/notes.txt"), Path("/r/d.py"), Path("/r/top.py")>>)

\* Entry points and configuration files, at the root and below it.
EntryPointProject ==
    Project(
        Layout(
            Path("/r/index.js") :> Readable(<<Stmt("import_from", "react"),
                                        Stmt("import", "./src/mysetup.py")>>)
         @@ Path("/r/src/index.js") :> Readable(<<Stmt("require", "react"),
                                            Stmt("import_from", "react")>>)
         @@ Path("/r/docs/README.md") :> Readable(<<>>)
         @@ Path("/r/src/mysetup.py") :> Readable(<<>>)),
        <<Path("/r/index.js"), Path("/r/src/index.js"), Path("/r/docs/README.md"),
          Path("/r/src/mysetup.py")>>)

\* Eleven imported files with different numbers of importers.
CoreFilesProject ==
    Project(
        Layout(
            Path("/r/hub.py") :> Readable(<<
                Stmt("import", "m01"), Stmt("import", "m02"), Stmt("import", "m03"),
                Stmt("import", "m04"), Stmt("import", "m05"), Stmt("import", "m06"),
                Stmt("import", "m07"), Stmt("import", "m08"), Stmt("import", "m09"),
                Stmt("import", "m10"), Stmt("import", "m11")>>)
         @@ Path("/r/second.py") :> Readable(<<Stmt("import", "m11"), Stmt("import", "m05"),
                                         Stmt("import", "hub")>>)
         @@ Path("/r/m01.py") :> Readable(<<Stmt("import", "m03"), Stmt("import", "m12")>>)
         @@ Path("/r/m02.py") :> Readable(<<>>) @@ Path("/r/m03.py") :> Readable(<<>>)
         @@ Path("/r/m04.py") :> Readable(<<>>) @@ Path("/r/m05.py") :> Readable(<<>>)
         @@ Path("/r/m06.py") :> Readable(<<>>) @@ Path("/r/m07.py") :> Readable(<<>>)
         @@ Path("/r/m08.py") :> Readable(<<>>) @@ Path("/r/m09.py") :> Readable(<<>>)
         @@ Path("/r/m10.py") :> Readable(<<>>) @@ Path("/r/m11.py") :> Readable(<<>>)
         @@ Path("/r/m12.py") :> Readable(<<>>)),
        <<Path("/r/hub.py"), Path("/r/second.py"), Path("/r/m01.py")>>)

\* Two files importing each other, and a module of a package.
CircularProject ==
    Project(
        Layout(
            Path("/r/circular1.py") :> Readable(<<Stmt("from", "circular2")>>)
         @@ Path("/r/circular2.py") :> Readable(<<Stmt("from", "circular1"),
                                            Stmt("import", "pkg.m")>>)
         @@ Path("/r/pkg/__init__.py") :> Readable(<<>>)
         @@ Path("/r/pkg/m.py") :> Readable(<<Stmt("from", ".m"), Stmt("from", "..circular1"),
                                        Stmt("import", "math")>>)),
        <<Path("/r/circular1.py"), Path("/r/circular2.py"), Path("/r/pkg/m.py")>>)

\* A JS application: app.js names packages, relative paths and a path from
\* "/" in every statement shape; Button.js names react twice and fs once;
\* react.js bears the name of a package.
ExternalsProject ==
    Project(
        Layout(
            Path("/r/app.js") :> Readable(<<
                Stmt("import_from", "react"),
                Stmt("import_from", "./components/Button"),
                Stmt("require", "fs"),
                Stmt("import", "react"),
                Stmt("import_from", "/components/Button"),
                Stmt("dynamic", "./missing"),
                Stmt("require", "react"),
                Stmt("dynamic", "lodash")>>)
         @@ Path("/r/components/Button.js") :> Readable(<<
                Stmt("import_from", "react"),
                Stmt("import_from", "react"),
                Stmt("require", "fs")>>)
         @@ Path("/r/react.js") :> Readable(<<>>)),
        <<Path("/r/app.js"), Path("/r/components/Button.js"), Path("/r/react.js")>>)

\* Imports that resolve to no file: pkg/mod.py names a missing sibling and
\* a directory without __init__.py beside a module that exists and a
\* package; web/page.js names a missing path beside a file that exists and a
\* package; lonely.py names a missing sibling only.
UnresolvableProject ==
    Project(
        Layout(
            Path("/r/pkg/__init__.py") :> Readable(<<>>)
         @@ Path("/r/pkg/mod.py") :> Readable(<<
                Stmt("from", ".missing"), Stmt("import", "data.sets"),
                Stmt("from", ".sibling"), Stmt("import", "os")>>)
         @@ Path("/r/pkg/sibling.py") :> Readable(<<>>)
         @@ Path("/r/data/sets/table.py") :> Readable(<<>>)
         @@ Path("/r/web/page.js") :> Readable(<<
                Stmt("import_from", "./missing"), Stmt("import_from", "./widget"),
                Stmt("require", "react")>>)
         @@ Path("/r/web/widget.js") :> Readable(<<>>)
         @@ Path("/r/lonely.py") :> Readable(<<Stmt("from", ".nothing")>>)),
        <<Path("/r/pkg/mod.py"), Path("/r/web/page.js"), Path("/r/lonely.py")>>)

\* Bare relative imports: "from . import x" in pkg/mod.py and in
\* pkg/sub/deep.py, where neither the root nor pkg holds __init__.py, and in
\* tools/x/run.py, where tools does.
BareRelativeProject ==
    Project(
        Layout(
            Path("/r/pkg/mod.py") :> Readable(<<Stmt("from", "."), Stmt("from", ".helper")>>)
         @@ Path("/r/pkg/helper.py") :> Readable(<<>>)
         @@ Path("/r/pkg/sub/deep.py") :> Readable(<<Stmt("from", "."), Stmt("import", "os")>>)
         @@ Path("/r/tools/__init__.py") :> Readable(<<>>)
         @@ Path("/r/tools/x/run.py") :> Readable(<<Stmt("from", ".")>>)),
        <<Path("/r/pkg/mod.py"), Path("/r/pkg/sub/deep.py"), Path("/r/tools/x/run.py")>>)

Projects ==
    { EndToEndProject, SelfImportProject, FailingFilesProject,
      EntryPointProject, CoreFilesProject, CircularProject, ExternalsProject,
      UnresolvableProject, BareRelativeProject }

\* The project a layout belongs to.
ProjectOf(layout) == CHOOSE p \in Projects : p.layout = layout

\* The longest list of files a caller passes, the listing of the project
\* apart.
MaxFiles == 2

SeqsUpTo(S, n) == UNION {[1..k -> S] : k \in 0..n}

\* The lists a caller passes: the listing of the project, and every list of
\* at most MaxFiles of its paths, repeated paths included.
FileLists(layout) ==
    SeqsUpTo(ProjectOf(layout).candidates, MaxFiles) \cup {ProjectOf(layout).listing}

---------------------------------------------------------------------------
(* The analyzer.  call and ret observe the last call made on it: the        *)
(* operation and its arguments (for analyze_project also rerun, whether the *)
(* maps held entries of an earlier run when it was called), and what it     *)
(* gave back.                                                               *)

\* A result the caller has kept: the dict analyze_project returned holds the
\* three map objects of the analyzer, not copies, and new lists of the core
\* files, the cycles and the orphans.  shared says that its maps are still
\* the objects bound to the analyzer's fields, whose entries are then read
\* from the fields; maps holds their entries once they are not.
KeptResult(value) ==
    [ shared |-> TRUE,
      maps |-> Maps(EmptyDict, EmptyDict, EmptyDict),
      core_files |-> value.core_files,
      circular_dependencies |-> value.circular_dependencies,
      orphaned_files |-> value.orphaned_files,
      returned |-> value ]

\* The dicts emptied in place (dict.clear()): a kept result goes on sharing
\* them with the analyzer.
clear_maps_in_place(kept, prev) == kept

\* self.imports_by_file = {} and the two assignments after it bind the
\* fields to new dicts: a kept result that held the dicts bound before, with
\* the entries prev, goes on holding them.
rebind_maps(kept, prev) ==
    [i \in 1..Len(kept) |->
        IF kept[i].shared THEN [kept[i] EXCEPT !.shared = FALSE, !.maps = prev]
        ELSE kept[i]]

CurrentMaps == Maps(imports_by_file, imported_by, external_imports)

\* ImportAnalyzer(root_path), over one of the projects.
Init ==
    /\ fs \in {p.layout : p \in Projects}
    /\ root_path = Root
    /\ imports_by_file = EmptyDict
    /\ imported_by = EmptyDict
    /\ external_imports = EmptyDict
    /\ call = [op |-> "__init__"]
    /\ ret = Returned(<<>>)
    /\ results = <<>>

AnalyzeProject ==
    \E files \in FileLists(fs) :
        \E r \in {analyze_project(fs, root_path, CurrentMaps, files)} :
            /\ imports_by_file' = r.maps.imports_by_file
            /\ imported_by' = r.maps.imported_by
            /\ external_imports' = r.maps.external_imports
            /\ call' = [op |-> "analyze_project", files |-> files,
                        rerun |-> imports_by_file # EmptyDict]
            /\ ret' = r.ret
            /\ results' = rebind_maps(results, CurrentMaps)
            /\ UNCHANGED <<fs, root_path>>

AnalyzeFile ==
    \E file_path \in ProjectOf(fs).candidates :
        /\ call' = [op |-> "analyze_file", file_path |-> file_path]
        /\ \E v \in {analyze_file(fs, root_path, file_path)} :
               ret' = IF v.raised THEN Threw
                      ELSE Returned([internal |-> v.internal, external |-> v.external])
        /\ UNCHANGED <<fs, root_path, imports_by_file, imported_by, external_imports,
                       results>>

Next == AnalyzeProject \/ AnalyzeFile

Spec == Init /\ [][Next]_vars

---------------------------------------------------------------------------
(* Cycle detection on a forward map assigned by hand, as the tests do.     *)

\* The files of the hand-built maps.
CycleFiles == <<"a.py", "b.py", "c.py", "circular1.py", "circular2.py", "d.py", "e.py">>

\* The largest number of files in a hand-built map, the map of the test
\* apart.
MaxCycleFiles == 4

\* The sequences that list every member of S once.
Orders(S) == {q \in [1..Cardinality(S) -> S] : Range(q) = S}

\* The maps over the first n files in which every file imports one file and
\* is imported by one file (the key at place i imports the file succ[i]), in
\* every order of the keys: the disjoint unions of simple cycles.
CycleMapsOver(n) ==
    {[i \in 1..n |-> <<q[i], <<CycleFiles[succ[i]]>>>>] :
        q \in Orders({CycleFiles[i] : i \in 1..n}), succ \in Orders(1..n)}

\* The map of test_detect_circular_dependencies, in every order of its keys.
TestCycleMap ==
    << <<"circular1.py", <<"circular2.py">>>>, <<"circular2.py", <<"circular1.py">>>>,
       <<"a.py", <<"b.py">>>>, <<"b.py", <<"c.py">>>>, <<"c.py", <<"a.py">>>> >>

TestCycleMaps ==
    {[i \in 1..Len(TestCycleMap) |-> TestCycleMap[q[i]]] : q \in Orders(1..Len(TestCycleMap))}

InitCycles ==
    /\ fs = CircularProject.layout
    /\ root_path = Root
    /\ imports_by_file \in
           TestCycleMaps \cup UNION {CycleMapsOver(n) : n \in 0..MaxCycleFiles}
    /\ imported_by = EmptyDict
    /\ external_imports = EmptyDict
    /\ call = [op |-> "__init__"]
    /\ ret = Returned(<<>>)
    /\ results = <<>>

DetectCircular ==
    /\ call' = [op |-> "_detect_circular_dependencies"]
    /\ ret' = Returned(detect_circular_dependencies(imports_by_file))
    /\ UNCHANGED <<fs, root_path, imports_by_file, imported_by, external_imports,
                   results>>

NextCycles == DetectCircular

SpecCycles == InitCycles /\ [][NextCycles]_vars

---------------------------------------------------------------------------
(* Resolution of a Python module path, over the layouts of a package.      *)

\* The files a layout may hold: a package with a module and a subpackage, a
\* module with the name of the package, and a script.
ResolveFiles ==
    { Path("/r/pkg/__init__.py"), Path("/r/pkg/module.py"), Path("/r/pkg.py"),
      Path("/r/pkg/subpackage/__init__.py"), Path("/r/main.py") }

ResolveLayouts ==
    {Layout([p \in held |-> Readable(<<>>)]) : held \in SUBSET ResolveFiles}

\* The module paths resolved: absolute ones, and relative ones.
ResolveModules ==
    { "pkg", "pkg.module", "pkg.subpackage", "pkg.missing", "nonexistent.module",
      "main", ".module", "..pkg", ".", ".." }

\* The files holding the import.
ImportingFiles ==
    { Path("/r/main.py"), Path("/r/pkg/module.py"), Path("/r/pkg/subpackage/deep.py") }

InitResolve ==
    /\ fs \in ResolveLayouts
    /\ root_path = Root
    /\ imports_by_file = EmptyDict
    /\ imported_by = EmptyDict
    /\ external_imports = EmptyDict
    /\ call = [op |-> "__init__"]
    /\ ret = Returned(<<>>)
    /\ results = <<>>

ModuleToFilePath ==
    \E module_path \in ResolveModules, file_path \in ImportingFiles :
        /\ call' = [op |-> "_module_to_file_path",
                    module_path |-> module_path, file_path |-> file_path]
        /\ ret' = Returned(module_to_file_path(fs, root_path, module_path, file_path))
        /\ UNCHANGED <<fs, root_path, imports_by_file, imported_by, external_imports,
                       results>>

NextResolve == ModuleToFilePath

SpecResolve == InitResolve /\ [][NextResolve]_vars

---------------------------------------------------------------------------
(* Resolution of a JS/TS import path, over the layouts of a source tree.   *)

\* The files a layout may hold: a module in two languages, a directory with
\* index files beside a data file of its name, and a module in a
\* subdirectory.
JsResolveFiles ==
    { Path("/r/mod.js"), Path("/r/mod.ts"), Path("/r/lib/index.js"),
      Path("/r/lib/index.tsx"), Path("/r/lib.json"), Path("/r/src/util.jsx"),
      Path("/r/foo.bar.js"), Path("/r/foo.js") }

JsResolveLayouts ==
    {Layout([p \in held |-> Readable(<<>>)]) : held \in SUBSET JsResolveFiles}

\* The import paths resolved: relative ones, with and without an extension,
\* with a dot inside the last segment, through "..", and package names.
JsImportPaths ==
    { "./mod", "./mod.ts", "./lib", "./lib/index", "../mod", "./src/../lib",
      "./util", "./missing", "react", "lib", "./foo.bar" }

\* The files holding the import.
JsImportingFiles == { Path("/r/a.js"), Path("/r/src/b.ts") }

InitJsResolve ==
    /\ fs \in JsResolveLayouts
    /\ root_path = Root
    /\ imports_by_file = EmptyDict
    /\ imported_by = EmptyDict
    /\ external_imports = EmptyDict
    /\ call = [op |-> "__init__"]
    /\ ret = Returned(<<>>)
    /\ results = <<>>

JsImportToFilePath ==
    \E import_path \in JsImportPaths, file_path \in JsImportingFiles :
        \E r \in {js_import_to_file_path(fs, root_path, import_path, file_path)} :
            /\ call' = [op |-> "_js_import_to_file_path",
                        import_path |-> import_path, file_path |-> file_path]
            /\ ret' = IF r = ValueError THEN Threw ELSE Returned(r)
            /\ UNCHANGED <<fs, root_path, imports_by_file, imported_by,
                           external_imports, results>>

NextJsResolve == JsImportToFilePath

SpecJsResolve == InitJsResolve /\ [][NextJsResolve]_vars

---------------------------------------------------------------------------
(* Results of analyze_project kept by the caller across later calls.       *)

\* A kept result as the caller reads it now.
ReadNow(kept) ==
    AnalysisResult(IF kept.shared THEN CurrentMaps ELSE kept.maps,
                   kept.core_files, kept.circular_dependencies, kept.orphaned_files)

\* The number of results the caller keeps.
MaxHeld == 2

\* The projects analyzed, and the lists passed: the files of the listing in
\* its order, any of them left out.
LifecycleProjects == {EndToEndProject, CircularProject, ExternalsProject}

RECURSIVE SubLists(_)
SubLists(listing) ==
    IF Len(listing) = 0 THEN {<<>>}
    ELSE With(SubLists(Tail(listing)), LAMBDA rest :
             rest \cup {<<Head(listing)>> \o l : l \in rest})

InitLifecycle ==
    /\ fs \in {p.layout : p \in LifecycleProjects}
    /\ root_path = Root
    /\ imports_by_file = EmptyDict
    /\ imported_by = EmptyDict
    /\ external_imports = EmptyDict
    /\ call = [op |-> "__init__"]
    /\ ret = Returned(<<>>)
    /\ results = <<>>

\* result = analyzer.analyze_project(files), the result kept.
AnalyzeProjectKept ==
    /\ Len(results) < MaxHeld
    /\ \E files \in SubLists(ProjectOf(fs).listing) :
           \E r \in {analyze_project(fs, root_path, CurrentMaps, files)} :
               /\ imports_by_file' = r.maps.imports_by_file
               /\ imported_by' = r.maps.imported_by
               /\ external_imports' = r.maps.external_imports
               /\ call' = [op |-> "analyze_project", files |-> files,
                           rerun |-> imports_by_file # EmptyDict]
               /\ ret' = r.ret
               /\ results' = IF r.ret.raised THEN rebind_maps(results, CurrentMaps)
                             ELSE Append(rebind_maps(results, CurrentMaps),
                                         KeptResult(r.ret.value))
               /\ UNCHANGED <<fs, root_path>>

NextLifecycle == AnalyzeProjectKept

SpecLifecycle == InitLifecycle /\ [][NextLifecycle]_vars

---------------------------------------------------------------------------
(* The renderers                                                           *)

\* sorted(d.items()): the items in ascending order of their keys.
SortedItems(d) ==
    With(SortedStrings(KeySet(d)), LAMBDA keys :
        [i \in 1..Len(keys) |-> <<keys[i], Get(d, keys[i])>>])

\* q[:n], for a negative n as well.
Take(q, n) ==
    IF n >= 0 THEN SubSeq(q, 1, IF n < Len(q) THEN n ELSE Len(q))
    ELSE SubSeq(q, 1, IF Len(q) + n > 0 THEN Len(q) + n ELSE 0)

\* One line of _format_file_dependencies.
DependencyLine(file, internal, external) ==
    With(JoinStr(internal, ", "), LAMBDA imports_str :
        file \o " -> " \o
            (IF Len(external) = 0 THEN imports_str
             ELSE (IF imports_str # "" THEN imports_str \o ", " ELSE "")
                  \o JoinStr([i \in 1..Len(external) |-> "external:" \o external[i]],
                             ", ")))

format_file_dependencies(maps) ==
    With(SelectSeq(SortedItems(maps.imports_by_file),
                   LAMBDA item : \/ item[2] # <<>>
                                 \/ GetOr(maps.external_imports, item[1], {}) # {}),
         LAMBDA items :
        [i \in 1..Len(items) |->
            DependencyLine(items[i][1], items[i][2],
                SortedStrings(GetOr(maps.external_imports, items[i][1], {})))])

format_imported_by(maps) ==
    With(SelectSeq(SortedItems(maps.imported_by), LAMBDA item : item[2] # <<>>),
         LAMBDA items :
        [i \in 1..Len(items) |-> items[i][1] \o " <- " \o JoinStr(items[i][2], ", ")])

format_core_files(maps) ==
    With(core_files_of(maps.imported_by), LAMBDA core_list :
        [i \in 1..Len(core_list) |->
            ToString(i) \o ". " \o core_list[i][1] \o " (imported by "
                \o ToString(core_list[i][2]) \o " files)"])

format_circular_deps(cycles) ==
    [i \in 1..Len(cycles) |-> ToString(i) \o ". " \o JoinStr(cycles[i], " -> ")]

\* The section of the cycles left out.
adjacency_list_without_cycles(maps) ==
    IF maps.imports_by_file = EmptyDict THEN "No imports found."
    ELSE JoinStr(<<"FILE DEPENDENCIES:">> \o format_file_dependencies(maps)
                 \o <<"\nIMPORTED BY:">> \o format_imported_by(maps)
                 \o <<"\nCORE FILES (most imported):">> \o format_core_files(maps),
                 "\n")

generate_adjacency_list(maps) ==
    IF maps.imports_by_file = EmptyDict THEN "No imports found."
    ELSE With(detect_circular_dependencies(maps.imports_by_file), LAMBDA cycles :
             JoinStr(<<"FILE DEPENDENCIES:">> \o format_file_dependencies(maps)
                     \o <<"\nIMPORTED BY:">> \o format_imported_by(maps)
                     \o <<"\nCORE FILES (most imported):">> \o format_core_files(maps)
                     \o (IF cycles # <<>>
                         THEN <<"\nCIRCULAR DEPENDENCIES:">> \o format_circular_deps(cycles)
                         ELSE <<>>),
                     "\n"))

\* The internal imports of a central file that are pulled in as nodes.
ImportsShown == 3

\* The longest path shown unabridged.
LabelLimit == 30

\* A selection that holds the importers too: every file of the two maps.
every_file_important(maps, max_files) ==
    KeySet(maps.imports_by_file) \cup KeySet(maps.imported_by)
    \cup UNION {Range(maps.imports_by_file[i][2]) : i \in 1..Len(maps.imports_by_file)}

\* The files the diagram selects, before list(important_files)[:max_files].
important_files_of(maps, max_files) ==
    With(Take(SortedByScore([i \in 1..Len(maps.imported_by) |->
                  <<maps.imported_by[i][1], Len(maps.imported_by[i][2])>>]),
              max_files), LAMBDA central_files :
        UNION {{central_files[i][1]}
                   \cup Range(Take(GetOr(maps.imports_by_file, central_files[i][1], <<>>),
                                   ImportsShown)) :
               i \in 1..Len(central_files)})

\* node_ids[file], for a file of the sequence of the nodes.
NodeId(important_files, file) ==
    "N" \o ToString((CHOOSE i \in 1..Len(important_files) : important_files[i] = file) - 1)

display_name(file) ==
    IF Len(file) > LabelLimit
    THEN With(Split(file, "/"), LAMBDA parts :
             IF Len(parts) > 2 THEN parts[1] \o "/.../" \o parts[Len(parts)] ELSE file)
    ELSE file

\* One edge line for a file, whatever the number of its imports shown.
first_edge_only(important_files, file, imports) ==
    With(Take(SelectSeq(imports, LAMBDA imported : imported \in Range(important_files)), 1),
         LAMBDA shown :
        [i \in 1..Len(shown) |->
            "  " \o NodeId(important_files, file) \o " --> "
                 \o NodeId(important_files, shown[i]) \o ";"])

\* The edge lines of the imports of one file.
EdgeLinesOf(important_files, file, imports) ==
    With(SelectSeq(imports, LAMBDA imported : imported \in Range(important_files)),
         LAMBDA shown :
        [i \in 1..Len(shown) |->
            "  " \o NodeId(important_files, file) \o " --> "
                 \o NodeId(important_files, shown[i]) \o ";"])

RECURSIVE EdgeLines(_, _)
EdgeLines(important_files, forward) ==
    IF Len(forward) = 0 THEN <<>>
    ELSE (IF Head(forward)[1] \in Range(important_files)
          THEN EdgeLinesOf(important_files, Head(forward)[1], Head(forward)[2])
          ELSE <<>>)
         \o EdgeLines(important_files, Tail(forward))

\* The three backquotes that open and close a Markdown code block; a string
\* of this language cannot hold a backquote, and "~" stands for it.
Fence == "~~~"

\* The set of the selected files listed whole, not cut to max_files.
untruncated(listed, max_files) == listed

\* list(important_files)[:max_files], for the order listed in which the set
\* is iterated.
truncated(listed, max_files) == Take(listed, max_files)

\* generate_mermaid_diagram(max_files), where listed is the order in which
\* the set important_files is iterated.
generate_mermaid_diagram(maps, max_files, listed) ==
    IF maps.imports_by_file = EmptyDict
    THEN Fence \o "mermaid\ngraph TD;\n  A[No imports found];\n" \o Fence
    ELSE With(truncated(listed, max_files), LAMBDA important_files :
             JoinStr(<<Fence \o "mermaid", "graph TD;">>
                     \o [i \in 1..Len(important_files) |->
                            "  " \o NodeId(important_files, important_files[i])
                                 \o "[\"" \o display_name(important_files[i]) \o "\"];"]
                     \o EdgeLines(important_files, maps.imports_by_file)
                     \o <<Fence>>,
                     "\n"))

---------------------------------------------------------------------------
(* Rendering of the maps analyze_project built and of maps assigned by     *)
(* hand, as the tests of the renderers assign them.                        *)

\* The maps of test_generate_mermaid_diagram.
DiagramTestMaps ==
    Maps(<< <<"main.py", <<"utils.py", "helpers.py">>>>, <<"utils.py", <<"helpers.py">>>> >>,
         << <<"utils.py", <<"main.py">>>>, <<"helpers.py", <<"main.py", "utils.py">>>> >>,
         EmptyDict)

\* The maps of test_analyzer_generate_adjacency_list_with_circulars.
CircularTestMaps ==
    Maps(<< <<"a.py", <<"b.py">>>>, <<"b.py", <<"a.py">>>> >>,
         << <<"b.py", <<"a.py">>>>, <<"a.py", <<"b.py">>>> >>,
         << <<"a.py", {}>> >>)

\* A forward map alone, and a reverse map alone.
ForwardOnlyMaps == Maps(<< <<"a.py", <<"b.py">>>> >>, EmptyDict, EmptyDict)

ReverseOnlyMaps == Maps(EmptyDict, << <<"b.py", <<"a.py">>>> >>, EmptyDict)

\* Paths of more than thirty characters, external references, and a key
\* without internal imports.
LongPathMaps ==
    Maps(<< <<"src/components/widgets/LongButtonName.tsx",
              <<"src/components/widgets/helpers/format.ts", "lib/x.js">>>>,
            <<"app.js", <<>>>> >>,
         << <<"src/components/widgets/helpers/format.ts",
              <<"src/components/widgets/LongButtonName.tsx">>>>,
            <<"lib/x.js", <<"src/components/widgets/LongButtonName.tsx">>>> >>,
         << <<"src/components/widgets/LongButtonName.tsx", {"react"}>>,
            <<"app.js", {"react", "fs"}>> >>)

\* A file with four internal imports that imports itself, the reverse map
\* naming it alone.
HubMaps ==
    Maps(<< <<"hub.py", <<"m1.py", "m2.py", "hub.py", "m3.py">>>> >>,
         << <<"hub.py", <<"hub.py">>>> >>,
         EmptyDict)

\* An importer that names the same file twice, in a cycle with it, and a
\* third file.
RepeatedEdgeMaps ==
    Maps(<< <<"a.py", <<"b.py", "b.py", "c.py">>>>, <<"b.py", <<"a.py">>>> >>,
         << <<"b.py", <<"a.py", "a.py">>>>, <<"c.py", <<"a.py">>>>,
            <<"a.py", <<"b.py">>>> >>,
         EmptyDict)

\* Paths of more than thirty characters in one segment and in two.
LongNameMaps ==
    Maps(<< <<"a_module_with_a_very_long_file_name.py",
              <<"components/AnotherVeryLongComponentName.tsx">>>> >>,
         << <<"components/AnotherVeryLongComponentName.tsx",
              <<"a_module_with_a_very_long_file_name.py">>>> >>,
         EmptyDict)

HandMaps ==
    { Maps(EmptyDict, EmptyDict, EmptyDict), DiagramTestMaps, CircularTestMaps,
      ForwardOnlyMaps, ReverseOnlyMaps, LongPathMaps, HubMaps, RepeatedEdgeMaps,
      LongNameMaps }

RenderProjects == {EndToEndProject, CircularProject, ExternalsProject}

\* The largest max_files passed, the default apart.
MaxNodes == 3

DefaultMaxFiles == 20

InitRender ==
    /\ fs \in {p.layout : p \in RenderProjects}
    /\ root_path = Root
    /\ imports_by_file = EmptyDict
    /\ imported_by = EmptyDict
    /\ external_imports = EmptyDict
    /\ call = [op |-> "__init__"]
    /\ ret = Returned(<<>>)
    /\ results = <<>>

\* analyzer.analyze_project(files) over the listing of the project.
AnalyzeListing ==
    \E r \in {analyze_project(fs, root_path, CurrentMaps, ProjectOf(fs).listing)} :
        /\ imports_by_file' = r.maps.imports_by_file
        /\ imported_by' = r.maps.imported_by
        /\ external_imports' = r.maps.external_imports
        /\ call' = [op |-> "analyze_project", files |-> ProjectOf(fs).listing,
                    rerun |-> imports_by_file # EmptyDict]
        /\ ret' = r.ret
        /\ results' = rebind_maps(results, CurrentMaps)
        /\ UNCHANGED <<fs, root_path>>

\* analyzer.imports_by_file = {...}; analyzer.imported_by = {...};
\* analyzer.external_imports = {...}
AssignMaps ==
    \E maps \in HandMaps :
        /\ imports_by_file' = maps.imports_by_file
        /\ imported_by' = maps.imported_by
        /\ external_imports' = maps.external_imports
        /\ call' = [op |-> "assign"]
        /\ ret' = Returned(<<>>)
        /\ UNCHANGED <<fs, root_path, results>>

\* A renderer that puts the reverse map in the order of its keys.
GenerateAdjacencyListSortingInPlace ==
    /\ call' = [op |-> "generate_adjacency_list"]
    /\ ret' = Returned(generate_adjacency_list(CurrentMaps))
    /\ imported_by' = [i \in 1..Len(imported_by) |->
                          <<SortedItems(imported_by)[i][1], SortedItems(imported_by)[i][2]>>]
    /\ UNCHANGED <<fs, root_path, imports_by_file, external_imports, results>>

GenerateAdjacencyList ==
    /\ call' = [op |-> "generate_adjacency_list"]
    /\ ret' = Returned(generate_adjacency_list(CurrentMaps))
    /\ UNCHANGED <<fs, root_path, imports_by_file, imported_by, external_imports,
                   results>>

\* generate_mermaid_diagram(max_files): the set important_files is iterated
\* in an order that the hashes of its strings decide.
GenerateMermaidDiagram ==
    \E max_files \in 0..MaxNodes \cup {DefaultMaxFiles} :
        \E listed \in Orders(important_files_of(CurrentMaps, max_files)) :
            /\ call' = [op |-> "generate_mermaid_diagram", max_files |-> max_files,
                        listed |-> listed]
            /\ ret' = Returned(generate_mermaid_diagram(CurrentMaps, max_files, listed))
            /\ UNCHANGED <<fs, root_path, imports_by_file, imported_by,
                           external_imports, results>>

NextRender ==
    AnalyzeListing \/ AssignMaps \/ GenerateAdjacencyList \/ GenerateMermaidDiagram

SpecRender == InitRender /\ [][NextRender]_vars

---------------------------------------------------------------------------
(* The snapshot assembler (src/codesnap/core.py, CodeSnapshotter): the     *)
(* part of create_snapshot that handles import_analysis, for the default   *)
(* max_tokens = None, under which no section is dropped for its size.      *)

\* ImportAnalyzer(self.root_path): the maps of a new analyzer.
NewAnalyzerMaps == Maps(EmptyDict, EmptyDict, EmptyDict)

\* json.dumps(metadata) raises TypeError for a set: the values of the
\* external map are sets, every other value of a result is a dict, a list, a
\* tuple, a string or a number.
json_serializable(import_analysis) == import_analysis.external_imports = EmptyDict

\* The parts create_snapshot appends to content_parts for import_analysis,
\* for the markdown and the text format; listed is the order in which the
\* diagram iterates the set of its files.
import_section(analyzer, output_format, import_diagram, listed) ==
    << IF output_format = "markdown" THEN "## Import Relationships\n"
       ELSE "Import Relationships:\n",
       IF output_format = "markdown"
       THEN Fence \o "\n" \o generate_adjacency_list(analyzer) \o "\n" \o Fence \o "\n"
       ELSE generate_adjacency_list(analyzer) \o "\n" >>
    \o (IF ~import_diagram THEN <<>>
        ELSE IF output_format = "markdown"
        THEN << "### Import Diagram\n",
                generate_mermaid_diagram(analyzer, DefaultMaxFiles, listed) \o "\n" >>
        ELSE << "Import diagram not available in text format.\n" >>)

\* create_snapshot(output_format, import_analysis, import_diagram) for a
\* dict import_analysis: whether it raised, the text the import analysis
\* adds to the content, and the entry import_analysis of the metadata.
create_snapshot(output_format, import_analysis, import_diagram, listed) ==
    IF output_format # "json"
    THEN [ raised |-> FALSE,
           content |-> JoinStr(import_section(NewAnalyzerMaps, output_format,
                                              import_diagram, listed), "\n"),
           in_metadata |-> FALSE,
           import_analysis |-> import_analysis ]
    ELSE [ raised |-> ~json_serializable(import_analysis),
           content |-> "",
           in_metadata |-> TRUE,
           import_analysis |-> import_analysis ]

OutputFormats == {"markdown", "text", "json"}

\* snapshotter.create_snapshot(output_format=..., import_analysis=result,
\* import_diagram=...) for a result the caller has kept.
CreateSnapshot ==
    \E i \in 1..Len(results), output_format \in OutputFormats, import_diagram \in BOOLEAN :
        \E listed \in Orders(important_files_of(NewAnalyzerMaps, DefaultMaxFiles)) :
            \E snapshot \in {create_snapshot(output_format, ReadNow(results[i]),
                                             import_diagram, listed)} :
                /\ call' = [op |-> "create_snapshot", output_format |-> output_format,
                            import_analysis |-> ReadNow(results[i]),
                            import_diagram |-> import_diagram]
                /\ ret' = IF snapshot.raised THEN Threw
                          ELSE Returned([content |-> snapshot.content,
                                         in_metadata |-> snapshot.in_metadata,
                                         import_analysis |-> snapshot.import_analysis])
                /\ UNCHANGED <<fs, root_path, imports_by_file, imported_by,
                               external_imports, results>>

NextSnapshot == AnalyzeProjectKept \/ CreateSnapshot

SpecSnapshot == InitLifecycle /\ [][NextSnapshot]_vars

---------------------------------------------------------------------------
(* Cycle detection and orphan detection on forward maps of any shape,      *)
(* assigned by hand: several imports per key, repeated imports,            *)
(* self-imports, targets that are not keys, in every order.                *)

\* The files the maps name and the directory that holds them.
GraphFiles == {"a.py", "b.py", "c.py"}

GraphLayout ==
    Layout(
        Path("/r/a.py") :> Readable(<<>>)
     @@ Path("/r/b.py") :> Readable(<<>>)
     @@ Path("/r/c.py") :> Readable(<<>>))

GraphListing == <<Path("/r/a.py"), Path("/r/b.py"), Path("/r/c.py")>>

\* The largest number of entries in the lists of a map, all keys together.
MaxEdges == 4

\* The maps with the given keys in the given order whose lists hold at most
\* n entries together.
RECURSIVE MapsOver(_, _)
MapsOver(keys, n) ==
    IF Len(keys) = 0 THEN {<<>>}
    ELSE UNION {{<< <<Head(keys), imports>> >> \o rest :
                    rest \in MapsOver(Tail(keys), n - Len(imports))} :
                imports \in SeqsUpTo(GraphFiles, n)}

InitGraph ==
    /\ fs = GraphLayout
    /\ root_path = Root
    /\ imports_by_file \in
           UNION {MapsOver(keys, MaxEdges) :
                     keys \in UNION {Orders(S) : S \in SUBSET GraphFiles}}
    /\ imported_by = EmptyDict
    /\ external_imports = EmptyDict
    /\ call = [op |-> "__init__"]
    /\ ret = Returned(<<>>)
    /\ results = <<>>

\* The listing of the files of the layout.
ListingOf(layout) ==
    IF layout = GraphLayout THEN GraphListing ELSE ProjectOf(layout).listing

\* analyzer._find_orphaned_files(all_files), for the listing and for the
\* listing without one of its files.
FindOrphanedFiles ==
    \E all_files \in {l \in SubLists(ListingOf(fs)) : Len(l) + 1 >= Len(ListingOf(fs))} :
        /\ call' = [op |-> "_find_orphaned_files", files |-> all_files]
        /\ ret' = Returned(find_orphaned_files(fs, root_path, imports_by_file, all_files))
        /\ UNCHANGED <<fs, root_path, imports_by_file, imported_by, external_imports,
                       results>>

NextGraph == DetectCircular \/ FindOrphanedFiles

SpecGraph == InitGraph /\ [][NextGraph]_vars

---------------------------------------------------------------------------
(* The analytics and the renderers called in any order on the maps         *)
(* analyze_project built and on maps assigned by hand.                     *)

NextAnalytics ==
    \/ AnalyzeListing
    \/ AssignMaps
    \/ DetectCircular
    \/ FindOrphanedFiles
    \/ GenerateAdjacencyList
    \/ GenerateMermaidDiagram

SpecAnalytics == InitRender /\ [][NextAnalytics]_vars

---------------------------------------------------------------------------
(* Properties                                                              *)

\* analyze_project was the last call and it returned.
Analyzed == call.op = "analyze_project" /\ ~ret.raised

\* The root-relative path of a listed file.
Rel(file_path) == RelativeTo(file_path, root_path)

\* The listed paths that are regular files.
ListedFiles == {call.files[i] : i \in {j \in 1..Len(call.files) : IsFile(fs, call.files[j])}}

\* Every importer named in the reverse map.
Importers == UNION {Range(imported_by[i][2]) : i \in 1..Len(imported_by)}

\* C1: after analyze_project the reverse map is the transpose of the forward
\* map with multiplicity: b occurs in imported_by[a] as often as a occurs in
\* imports_by_file[b], and no key of the reverse map has an empty list.
C1_ReverseIsTranspose ==
    Analyzed =>
        /\ \A a \in KeySet(imported_by) \cup imported_files(imports_by_file) :
           \A b \in KeySet(imports_by_file) \cup Importers :
               Count(GetOr(imported_by, a, <<>>), b) = Count(GetOr(imports_by_file, b, <<>>), a)
        /\ \A a \in KeySet(imported_by) : Len(Get(imported_by, a)) > 0

\* A file listed twice is recorded twice as the importer of a file it imports
\* once.
C1_ListedTwice ==
    /\ Analyzed
    /\ fs = EndToEndLayout
    /\ call.files = <<Path("/r/main.py"), Path("/r/main.py")>>
    /\ Get(imports_by_file, "main.py") = <<"utils.py", "helpers.py">>
    /\ Get(imported_by, "utils.py") = <<"main.py", "main.py">>

\* C2: analyze_project leaves the maps and returns the result that a freshly
\* constructed analyzer gives for the same files, whatever calls the analyzer
\* served before.
C2_NoAccumulation ==
    call.op = "analyze_project" =>
        \E fresh \in {analyze_project(fs, root_path,
                                      Maps(EmptyDict, EmptyDict, EmptyDict), call.files)} :
            /\ CurrentMaps = fresh.maps
            /\ ret = fresh.ret

\* A run on an analyzer that held the entries of an earlier run, over files
\* that give fewer entries than it held.
C2_SecondRun ==
    /\ Analyzed
    /\ call.rerun
    /\ fs = EndToEndLayout
    /\ call.files = <<Path("/r/utils.py")>>
    /\ Keys(imports_by_file) = <<"utils.py">>
    /\ imported_by = EmptyDict
    /\ ret.value.core_files = <<>>

\* The result of analyze_file holds an import or an external reference.
HasImports(r) == Len(r.internal) > 0 \/ r.external # {}

\* C3: after analyze_project the forward map and the external map have the
\* same keys, the keys are the root-relative paths of the listed regular
\* files whose extraction gave an internal import or an external reference,
\* and no key holds an empty list together with an empty set.
C3_SparseKeys ==
    Analyzed =>
        /\ KeySet(imports_by_file) = KeySet(external_imports)
        /\ KeySet(imports_by_file) =
               {Rel(f) : f \in {g \in ListedFiles : HasImports(analyze_file(fs, root_path, g))}}
        /\ \A k \in KeySet(imports_by_file) :
               Get(imports_by_file, k) # <<>> \/ Get(external_imports, k) # {}

\* A directory, a file without imports, a file with imports and a file
\* whose extraction fails are listed: only the third is a key.
C3_OnlyImportersAreKeys ==
    /\ Analyzed
    /\ call.files = <<Path("/r/pkg"), Path("/r/orphan_module.py"), Path("/r/a.py"),
                      Path("/r/b.py")>>
    /\ Keys(imports_by_file) = <<"a.py">>
    /\ Keys(external_imports) = <<"a.py">>

\* The file a key of a map made of cycles imports.
Successor(forward, file) == Get(forward, file)[1]

\* The files on the cycle through file.
RECURSIVE CycleThrough(_, _, _)
CycleThrough(forward, file, seen) ==
    IF file \in seen THEN seen
    ELSE CycleThrough(forward, Successor(forward, file), seen \cup {file})

SimpleCycles(forward) == {CycleThrough(forward, file, {}) : file \in KeySet(forward)}

\* C4: for a forward map that is a disjoint union of simple cycles, in any
\* order of its keys, cycle detection gives one report per cycle: the files
\* of the cycle in import order, closed by a repeat of the first.
C4_OneReportPerCycle ==
    call.op = "_detect_circular_dependencies" =>
        /\ ~ret.raised
        /\ Len(ret.value) = Cardinality(SimpleCycles(imports_by_file))
        /\ \A cycle \in SimpleCycles(imports_by_file) :
               \E i \in 1..Len(ret.value) :
                   /\ Len(ret.value[i]) = Cardinality(cycle) + 1
                   /\ Range(ret.value[i]) = cycle
                   /\ ret.value[i][1] = ret.value[i][Len(ret.value[i])]
                   /\ \A k \in 1..(Len(ret.value[i]) - 1) :
                          ret.value[i][k + 1] = Successor(imports_by_file, ret.value[i][k])

\* The map of the test, a cycle of three files and a cycle of two with their
\* keys interleaved, gives two reports.
C4_TwoDisconnectedCycles ==
    /\ call.op = "_detect_circular_dependencies"
    /\ imports_by_file = << <<"c.py", <<"a.py">>>>, <<"circular2.py", <<"circular1.py">>>>,
                            <<"a.py", <<"b.py">>>>, <<"circular1.py", <<"circular2.py">>>>,
                            <<"b.py", <<"c.py">>>> >>
    /\ ret.value = << <<"c.py", "a.py", "b.py", "c.py">>,
                      <<"circular2.py", "circular1.py", "circular2.py">> >>

\* The file names the specification lists as conventional entry points.
EntryPointFileNames ==
    { "index.js", "index.ts", "index.jsx", "index.tsx",
      "main.js", "main.ts", "main.jsx", "main.tsx", "main.py",
      "app.js", "app.ts", "app.jsx", "app.tsx",
      "server.js", "server.ts", "server.jsx", "server.tsx", "server.py" }

\* The file names the specification lists as project or config files.
IsConfigFileName(name) ==
    \/ name \in { "package.json", "tsconfig.json", "pyproject.toml", "setup.py",
                  "requirements.txt", "README.md" }
    \/ StartsWith(name, ".eslintrc")
    \/ StartsWith(name, ".prettierrc")

\* C5: a listed file whose name is an entry-point name or a config name is
\* never in the orphan list, in whatever directory it lies.
C5_EntryPointsNeverOrphans ==
    Analyzed =>
        \A f \in ListedFiles :
            Name(f) \in EntryPointFileNames \/ IsConfigFileName(Name(f))
                => Rel(f) \notin Range(ret.value.orphaned_files)

\* An index.js below the root that nothing imports is reported as an orphan.
C5_NestedIndexReported ==
    /\ Analyzed
    /\ call.files = <<Path("/r/src/index.js")>>
    /\ ret.value.orphaned_files = <<"src/index.js">>

\* C6: a listed regular file whose name is no entry-point or config name is
\* in the orphan list exactly when no other scanned file imports it, and the
\* orphan list is ascending without duplicates.
C6_OrphanIffNotImportedByOthers ==
    Analyzed =>
        /\ \A f \in ListedFiles :
               Name(f) \notin EntryPointFileNames /\ ~IsConfigFileName(Name(f))
                   => (Rel(f) \in Range(ret.value.orphaned_files)
                          <=> ~\E k \in KeySet(imports_by_file) \ {Rel(f)} :
                                  Rel(f) \in Range(Get(imports_by_file, k)))
        /\ \A i, j \in 1..Len(ret.value.orphaned_files) :
               i < j => StrLess(ret.value.orphaned_files[i], ret.value.orphaned_files[j])

\* A file imported by itself alone is missing from the orphan list.
C6_SelfImportHidesOrphan ==
    /\ Analyzed
    /\ call.files = <<Path("/r/a.py")>>
    /\ Get(imports_by_file, "a.py") = <<"a.py", "b.py", "b.py">>
    /\ ret.value.orphaned_files = <<>>

\* The score of the i-th key of the reverse map.
Score(i) == Len(imported_by[i][2])

\* The place of the i-th key of the reverse map in the ranking: after the
\* keys of greater score and the earlier keys of equal score.
Rank(i) ==
    1 + Cardinality({j \in 1..Len(imported_by) :
                        Score(j) > Score(i) \/ (Score(j) = Score(i) /\ j < i)})

\* C7: the core files are the first min(10, n) entries of the ranking of the
\* n keys of the reverse map by the length of their importer lists,
\* descending, keys of equal score in the order of their insertion.
C7_CoreFilesRanking ==
    Analyzed =>
        /\ Len(ret.value.core_files) =
               IF Len(imported_by) < 10 THEN Len(imported_by) ELSE 10
        /\ \A i \in 1..Len(imported_by) :
               Rank(i) <= 10 =>
                   ret.value.core_files[Rank(i)] = <<imported_by[i][1], Score(i)>>

\* Thirteen imported files with scores 1 and 2: the ten core files are the
\* three of score 2 and the first seven of score 1, in insertion order.
C7_TenOfThirteen ==
    /\ Analyzed
    /\ Len(imported_by) = 13
    /\ call.files = <<Path("/r/hub.py"), Path("/r/second.py"), Path("/r/m01.py")>>
    /\ ret.value.core_files =
           << <<"m03.py", 2>>, <<"m05.py", 2>>, <<"m11.py", 2>>, <<"m01.py", 1>>,
              <<"m02.py", 1>>, <<"m04.py", 1>>, <<"m06.py", 1>>, <<"m07.py", 1>>,
              <<"m08.py", 1>>, <<"m09.py", 1>> >>

\* C8: for main.py (import utils; from helpers import helper_func), utils.py
\* (import os) and helpers.py, analyze_project over the three files gives
\* forward[main.py] = [utils.py, helpers.py], no external reference for
\* main.py, external[utils.py] = {os}, reverse[helpers.py] = [main.py], core
\* files helpers.py and utils.py, no cycle and no orphan.
C8_EndToEnd ==
    /\ call.op = "analyze_project"
    /\ fs = EndToEndLayout
    /\ Len(call.files) = 3
    /\ Range(call.files) = {Path("/r/main.py"), Path("/r/utils.py"), Path("/r/helpers.py")}
    => /\ ~ret.raised
       /\ Get(ret.value.imports_by_file, "main.py") = <<"utils.py", "helpers.py">>
       /\ Get(ret.value.external_imports, "main.py") = {}
       /\ Get(ret.value.external_imports, "utils.py") = {"os"}
       /\ Get(ret.value.imported_by, "helpers.py") = <<"main.py">>
       /\ {ret.value.core_files[i][1] : i \in 1..Len(ret.value.core_files)}
              = {"helpers.py", "utils.py"}
       /\ ret.value.circular_dependencies = <<>>
       /\ ret.value.orphaned_files = <<>>

\* The three files analyzed in the order main.py, utils.py, helpers.py.
C8_ThreeFilesAnalyzed ==
    /\ Analyzed
    /\ fs = EndToEndLayout
    /\ call.files = <<Path("/r/main.py"), Path("/r/utils.py"), Path("/r/helpers.py")>>
    /\ ret.value.imports_by_file =
           << <<"main.py", <<"utils.py", "helpers.py">>>>, <<"utils.py", <<>>>> >>
    /\ ret.value.core_files = << <<"utils.py", 1>>, <<"helpers.py", 1>> >>

\* The extensions analyze_file supports.
SupportedExtensions == {".py", ".pyi", ".js", ".jsx", ".ts", ".tsx"}

\* A path analyze_file cannot read, or a file of an unsupported extension.
Fails(file_path) == ~CanRead(fs, file_path) \/ Suffix(file_path) \notin SupportedExtensions

\* The layout in which the failing files among the listed ones hold a text
\* without imports.
WithoutFailingImports ==
    [fs EXCEPT !.text = [p \in DOMAIN @ |->
        IF p \in Range(call.files) /\ Fails(p) THEN Readable(<<>>) ELSE @[p]]]

\* C9: analyze_file never raises, and gives the empty result for a file that
\* cannot be read and for a file of an unsupported extension; analyze_project
\* over such files completes, with the maps and the result it gives when
\* these files hold no imports.
C9_FailingFileOnlyLosesItsEntries ==
    /\ call.op = "analyze_file" =>
           /\ ~ret.raised
           /\ Fails(call.file_path) => ret.value = [internal |-> <<>>, external |-> {}]
    /\ call.op = "analyze_project" =>
           /\ ~ret.raised
           /\ \E clean \in {analyze_project(WithoutFailingImports, root_path,
                                            Maps(EmptyDict, EmptyDict, EmptyDict),
                                            call.files)} :
                  /\ CurrentMaps = clean.maps
                  /\ ret = clean.ret

\* A file that cannot be decoded and a text file are listed with a Python
\* file that imports the first: the call returns and only that file has
\* entries.
C9_UnreadableFileListed ==
    /\ Analyzed
    /\ call.files = <<Path("/r/c.py"), Path("/r/notes.txt"), Path("/r/d.py"),
                      Path("/r/top.py")>>
    /\ ~CanRead(fs, Path("/r/c.py"))
    /\ imports_by_file = << <<"d.py", <<"c.py">>>> >>
    /\ external_imports = << <<"d.py", {"json"}>> >>

\* The path an absolute module path names below the root.
ModuleDir(module_path) ==
    Root \o SelectSeq(Split(module_path, "."), LAMBDA part : part # "")

\* C10: the resolution of an absolute module path does not depend on the
\* importing file: it is <path>/__init__.py when <path> is a directory
\* holding that file, else <path>.py when that exists, else None, and it
\* never raises.
C10_AbsoluteResolution ==
    call.op = "_module_to_file_path" /\ ~StartsWith(call.module_path, ".") =>
        /\ ~ret.raised
        /\ ret.value =
               IF /\ ModuleDir(call.module_path) \in fs.dirs
                  /\ Append(ModuleDir(call.module_path), "__init__.py") \in Files(fs)
               THEN Append(ModuleDir(call.module_path), "__init__.py")
               ELSE IF Append(Parent(ModuleDir(call.module_path)),
                              Name(ModuleDir(call.module_path)) \o ".py") \in Files(fs)
               THEN Append(Parent(ModuleDir(call.module_path)),
                           Name(ModuleDir(call.module_path)) \o ".py")
               ELSE None

\* pkg.module imported from a file of the subpackage, with pkg/__init__.py,
\* pkg/module.py and pkg.py present, resolves to pkg/module.py.
C10_ModuleOfPackage ==
    /\ call.op = "_module_to_file_path"
    /\ call.module_path = "pkg.module"
    /\ call.file_path = Path("/r/pkg/subpackage/deep.py")
    /\ Files(fs) = ResolveFiles
    /\ ret.value = Path("/r/pkg/module.py")

\* The number of dots module_path starts with.
RECURSIVE LeadingDots(_)
LeadingDots(module_path) ==
    IF StartsWith(module_path, ".")
    THEN 1 + LeadingDots(SubSeq(module_path, 2, Len(module_path)))
    ELSE 0

\* The dotted segments of module_path after its leading dots.
RemainingSegments(module_path) ==
    LET rest == SubSeq(module_path, LeadingDots(module_path) + 1, Len(module_path))
    IN  IF rest = "" THEN <<>> ELSE Split(rest, ".")

\* The directory k - 1 levels above the directory of the importing file.
AscendedDir(file_path, k) == SubSeq(file_path, 1, Len(file_path) - 1 - (k - 1))

\* C11: a module path with k >= 1 leading dots resolves from the directory
\* k - 1 levels above the importing file's directory, descending through the
\* remaining segments: to <target>.py when that file exists, else to
\* <target>/__init__.py when that exists, else to None; without remaining
\* segments to __init__.py of the ascended directory.
C11_RelativeResolution ==
    call.op = "_module_to_file_path" /\ StartsWith(call.module_path, ".") =>
        LET k == LeadingDots(call.module_path)
            segments == RemainingSegments(call.module_path)
            target == AscendedDir(call.file_path, k) \o segments
            py_file == Parent(target) \o <<Name(target) \o ".py">>
            init_file == target \o <<"__init__.py">>
        IN  /\ ~ret.raised
            /\ ret.value =
                   IF segments = <<>>
                   THEN AscendedDir(call.file_path, k) \o <<"__init__.py">>
                   ELSE IF py_file \in Files(fs) THEN py_file
                   ELSE IF init_file \in Files(fs) THEN init_file
                   ELSE None

\* The bare one-dot module path of "from . import x" in pkg/module.py
\* resolves to __init__.py of the root, one level above the package.
C11_BareDotAscends ==
    /\ call.op = "_module_to_file_path"
    /\ call.module_path = "."
    /\ call.file_path = Path("/r/pkg/module.py")
    /\ ret.value = Path("/r/__init__.py")

\* The path a relative import path names from the directory of the importing
\* file, "." and ".." components resolved.
JsNormalized(file_path, import_path) ==
    NormParts(<<>>, Parent(file_path) \o Split(import_path, "/"))

\* The first path of a sequence of candidates that exists, None without one.
FirstCandidate(candidates) ==
    IF \E i \in 1..Len(candidates) : Exists(fs, candidates[i])
    THEN candidates[CHOOSE i \in 1..Len(candidates) :
                        /\ Exists(fs, candidates[i])
                        /\ \A j \in 1..(i - 1) : ~Exists(fs, candidates[j])]
    ELSE None

\* C12: a relative JS/TS import path resolves to its normalized path when
\* that is an existing file; otherwise to the first existing extension
\* candidate in the order .js, .jsx, .ts, .tsx, .json; only without one to
\* the first existing index.<ext> inside the path, in the same order;
\* otherwise to None.
C12_JsResolutionPriority ==
    call.op = "_js_import_to_file_path" /\ StartsWith(call.import_path, ".") =>
        LET target == JsNormalized(call.file_path, call.import_path)
            with_ext == FirstCandidate(
                [i \in 1..5 |-> WithSuffix(target,
                                    <<".js", ".jsx", ".ts", ".tsx", ".json">>[i])])
            index == FirstCandidate(
                [i \in 1..5 |-> target \o
                     << "index" \o <<".js", ".jsx", ".ts", ".tsx", ".json">>[i] >>])
        IN  /\ ~ret.raised
            /\ ret.value = IF target \in Files(fs) THEN target
                           ELSE IF with_ext # None THEN with_ext
                           ELSE index

\* With every file present, ./mod.ts resolves to mod.ts although the
\* extension candidate mod.js exists, and ./lib to lib.json although
\* lib/index.js exists.
C12_FileBeforeExtension ==
    /\ call.op = "_js_import_to_file_path"
    /\ call.import_path = "./mod.ts"
    /\ call.file_path = Path("/r/a.js")
    /\ Files(fs) = JsResolveFiles
    /\ ret.value = Path("/r/mod.ts")
    /\ js_import_to_file_path(fs, root_path, "./lib", call.file_path)
           = Path("/r/lib.json")

\* analyze_file was the last call, on a JS/TS file that can be read.
AnalyzedJsFile ==
    /\ call.op = "analyze_file"
    /\ Suffix(call.file_path) \in {".js", ".jsx", ".ts", ".tsx"}
    /\ CanRead(fs, call.file_path)

\* The import paths the four JS/TS patterns match in the text of a file.
MatchedPaths(file_path) ==
    {st.arg : st \in {st \in Range(fs.text[file_path].stmts) :
                         st.kind \in {"import_from", "require", "import", "dynamic"}}}

\* The layout in which the statements of file_path that name one of the
\* given paths are deleted.
WithoutPaths(file_path, paths) ==
    [fs EXCEPT !.text[file_path].stmts = SelectSeq(@, LAMBDA st : st.arg \notin paths)]

\* The import paths of a set that contribute no internal import: without
\* their statements the file has the same internal list.
NoInternalEdge(paths) ==
    ret.value.internal =
        analyze_file(WithoutPaths(call.file_path, paths), root_path, call.file_path).internal

\* C13 as stated: in a JS/TS file every matched import path that does not
\* start with "." contributes no internal import and is recorded in the
\* file's external set.
C13_NonDotIsExternal ==
    AnalyzedJsFile =>
        LET non_dot == {p \in MatchedPaths(call.file_path) : ~StartsWith(p, ".")}
        IN  /\ ~ret.raised
            /\ NoInternalEdge(non_dot)
            /\ non_dot \subseteq ret.value.external

\* C13 amended: in a JS/TS file every matched import path that does not
\* start with "." contributes no internal import; it is recorded in the
\* file's external set when it does not start with "/" either, and a path
\* that starts with "/" is recorded nowhere.
C13_NonRelativeIsExternalOrDropped ==
    AnalyzedJsFile =>
        LET non_dot == {p \in MatchedPaths(call.file_path) : ~StartsWith(p, ".")}
            slash == {p \in non_dot : StartsWith(p, "/")}
        IN  /\ ~ret.raised
            /\ NoInternalEdge(non_dot)
            /\ (non_dot \ slash) \subseteq ret.value.external
            /\ slash \cap ret.value.external = {}

\* app.js names react, fs, lodash and /components/Button: the three packages
\* are its external set, the path from "/" is dropped, and its only internal
\* import is the one of ./components/Button, although react.js and
\* components/Button.js exist.
C13_PackagesAndSlashPath ==
    /\ AnalyzedJsFile
    /\ call.file_path = Path("/r/app.js")
    /\ "/components/Button" \in MatchedPaths(call.file_path)
    /\ Path("/r/react.js") \in Files(fs)
    /\ ret.value = [internal |-> <<"components/Button.js">>,
                    external |-> {"react", "fs", "lodash"}]

\* The statements of a file that name the given import path.
StatementsNaming(file_path, p) ==
    SelectSeq(fs.text[file_path].stmts, LAMBDA st : st.arg = p)

\* The package names a JS/TS file references: the matched import paths that
\* start with neither "." nor "/".
PackagesReferenced(file_path) ==
    {p \in MatchedPaths(file_path) : ~StartsWith(p, ".") /\ ~StartsWith(p, "/")}

\* C14: the external set of a JS/TS file is exactly the set of the package
\* names its statements reference, each name verbatim and once, whatever the
\* number and the shapes of the statements that name it; the external map of
\* analyze_project holds the same set for the file.
C14_ExternalSetIsThePackages ==
    /\ AnalyzedJsFile =>
           /\ ~ret.raised
           /\ ret.value.external = PackagesReferenced(call.file_path)
           /\ Cardinality(ret.value.external)
                  = Cardinality(PackagesReferenced(call.file_path))
    /\ Analyzed =>
           \A f \in Range(call.files) :
               Suffix(f) \in {".js", ".jsx", ".ts", ".tsx"} /\ CanRead(fs, f)
                   /\ PackagesReferenced(f) # {}
               => Get(ret.value.external_imports, RelativeTo(f, root_path))
                      = PackagesReferenced(f)

\* Button.js names react in two import-from statements and fs in a require:
\* its external set is {react, fs}.
C14_ReactTwiceFsOnce ==
    /\ AnalyzedJsFile
    /\ call.file_path = Path("/r/components/Button.js")
    /\ Len(StatementsNaming(call.file_path, "react")) = 2
    /\ Len(StatementsNaming(call.file_path, "fs")) = 1
    /\ ret.value.external = {"react", "fs"}
    /\ Cardinality(ret.value.external) = 2

\* The import paths of a file that are pre-classified as internal and
\* resolve to no file.
Unresolvable(file_path) ==
    IF ~CanRead(fs, file_path) THEN {}
    ELSE IF Suffix(file_path) \in {".py", ".pyi"}
    THEN {st.arg : st \in {st \in Range(fs.text[file_path].stmts) :
              /\ st.kind \in {"import", "from"}
              /\ is_internal_import(fs, root_path, st.arg, file_path)
              /\ module_to_file_path(fs, root_path, st.arg, file_path) = None}}
    ELSE IF Suffix(file_path) \in {".js", ".jsx", ".ts", ".tsx"}
    THEN {p \in MatchedPaths(file_path) :
              /\ StartsWith(p, ".") \/ StartsWith(p, "/")
              /\ js_import_to_file_path(fs, root_path, p, file_path) = None}
    ELSE {}

\* The layout in which every file holds its text without the statements of
\* its unresolvable imports.
WithoutUnresolvable ==
    [fs EXCEPT !.text = [f \in DOMAIN @ |->
        [@[f] EXCEPT !.stmts = SelectSeq(@, LAMBDA st : st.arg \notin Unresolvable(f))]]]

\* C15: an import pre-classified as internal that resolves to no file is
\* dropped without an error: it is not in the file's external set, and
\* analyze_file and analyze_project give the result, and leave the maps,
\* they give when the statements of these imports are not in the texts.
C15_UnresolvableDropped ==
    /\ call.op = "analyze_file" =>
           /\ ~ret.raised
           /\ Unresolvable(call.file_path) \cap ret.value.external = {}
           /\ \E clean \in {analyze_file(WithoutUnresolvable, root_path, call.file_path)} :
                  ret.value = [internal |-> clean.internal, external |-> clean.external]
    /\ call.op = "analyze_project" =>
           /\ ~ret.raised
           /\ \E clean \in {analyze_project(WithoutUnresolvable, root_path,
                                            Maps(EmptyDict, EmptyDict, EmptyDict),
                                            call.files)} :
                  /\ CurrentMaps = clean.maps
                  /\ ret = clean.ret

\* The project analyzed: .missing, data.sets, ./missing and .nothing
\* resolve to no file; pkg/mod.py and web/page.js keep their other imports
\* and lonely.py has no entry.
C15_MissingTargetsAnalyzed ==
    /\ Analyzed
    /\ fs = UnresolvableProject.layout
    /\ call.files = UnresolvableProject.listing
    /\ Unresolvable(Path("/r/pkg/mod.py")) = {".missing", "data.sets"}
    /\ Unresolvable(Path("/r/web/page.js")) = {"./missing"}
    /\ Unresolvable(Path("/r/lonely.py")) = {".nothing"}
    /\ imports_by_file = << <<"pkg/mod.py", <<"pkg/sibling.py">>>>,
                            <<"web/page.js", <<"web/widget.js">>>> >>
    /\ imported_by = << <<"pkg/sibling.py", <<"pkg/mod.py">>>>,
                        <<"web/widget.js", <<"web/page.js">>>> >>
    /\ external_imports = << <<"pkg/mod.py", {"os"}>>, <<"web/page.js", {"react"}>> >>

\* The file a root-relative path string names.
FileOf(rel) == root_path \o Path(rel)

\* The internal-import targets stored in the forward map with their
\* importers, and the keys of the reverse map with theirs.
StoredTargets ==
    UNION {{<<imports_by_file[i][1], t>> : t \in Range(imports_by_file[i][2])} :
               i \in 1..Len(imports_by_file)}
    \cup UNION {{<<f, imported_by[i][1]>> : f \in Range(imported_by[i][2])} :
                    i \in 1..Len(imported_by)}

\* The root-relative targets of the bare relative imports (dots only) in the
\* text of a file.
BareRelativeTargets(rel) ==
    IF ~CanRead(fs, FileOf(rel)) THEN {}
    ELSE {RelativeTo(module_to_file_path(fs, root_path, st.arg, FileOf(rel)), root_path) :
              st \in {st \in Range(fs.text[FileOf(rel)].stmts) :
                         /\ st.kind \in {"import", "from"}
                         /\ LeadingDots(st.arg) = Len(st.arg)
                         /\ IsRelativeTo(module_to_file_path(fs, root_path, st.arg,
                                                             FileOf(rel)), root_path)}}

\* C16 as stated: every internal-import target of the forward map built by
\* analyze_project, and every key of the reverse map, is a file that exists
\* under the project root.
C16_TargetsExist ==
    Analyzed => \A e \in StoredTargets : IsFile(fs, FileOf(e[2]))

\* C16 amended: every internal-import target of the forward map built by
\* analyze_project, and every key of the reverse map, is a path under the
\* project root, and it exists unless it is the __init__.py a bare relative
\* import of the importer resolves to, which is stored unchecked.
C16_TargetsExistUnlessBareRelative ==
    Analyzed =>
        \A e \in StoredTargets :
            /\ IsRelativeTo(FileOf(e[2]), root_path)
            /\ ".." \notin Range(Path(e[2]))
            /\ \/ Exists(fs, FileOf(e[2]))
               \/ e[2] \in BareRelativeTargets(e[1])

\* The project analyzed: pkg/mod.py and pkg/sub/deep.py store __init__.py
\* files that do not exist, tools/x/run.py one that does, and pkg/mod.py
\* the module pkg/helper.py.
C16_MissingInitStored ==
    /\ Analyzed
    /\ fs = BareRelativeProject.layout
    /\ call.files = BareRelativeProject.listing
    /\ imports_by_file = << <<"pkg/mod.py", <<"__init__.py", "pkg/helper.py">>>>,
                            <<"pkg/sub/deep.py", <<"pkg/__init__.py">>>>,
                            <<"tools/x/run.py", <<"tools/__init__.py">>>> >>
    /\ ~Exists(fs, Path("/r/__init__.py"))
    /\ ~Exists(fs, Path("/r/pkg/__init__.py"))
    /\ Exists(fs, Path("/r/tools/__init__.py"))

\* C17: every result analyze_project returned reads, after any later calls
\* of analyze_project on the analyzer, as it did when it was returned.
C17_ResultNotMutated ==
    \A i \in 1..Len(results) : ReadNow(results[i]) = results[i].returned

\* A result with entries was kept, and a later call on other files left
\* other entries in the analyzer's maps.
C17_LaterCallOtherMaps ==
    /\ Len(results) = 2
    /\ results[1].returned.imports_by_file # EmptyDict
    /\ results[1].returned.imports_by_file # imports_by_file
    /\ results[1].returned.external_imports # external_imports
    /\ results[2].returned.imports_by_file = imports_by_file

\* The lines of the text a renderer returned.
Lines == Split(ret.value, "\n")

\* The places of the lines that read as given.
Places(line) == {i \in 1..Len(Lines) : Lines[i] = line}

\* C18: generate_adjacency_list returns "No imports found." exactly when the
\* forward map is empty; otherwise its text holds the headings FILE
\* DEPENDENCIES, IMPORTED BY and CORE FILES once each in that order, the
\* first on the first line, and then the heading CIRCULAR DEPENDENCIES
\* exactly when cycle detection on the forward map as it is now, built or
\* assigned by hand, reports a cycle.
C18_AdjacencyListSections ==
    call.op = "generate_adjacency_list" =>
        /\ ~ret.raised
        /\ ret.value = "No imports found." <=> imports_by_file = EmptyDict
        /\ imports_by_file # EmptyDict =>
               /\ Places("FILE DEPENDENCIES:") = {1}
               /\ \E i, j \in 2..Len(Lines) :
                      /\ i < j
                      /\ Places("IMPORTED BY:") = {i}
                      /\ Places("CORE FILES (most imported):") = {j}
                      /\ Lines[i - 1] = ""
                      /\ Lines[j - 1] = ""
                      /\ \A k \in Places("CIRCULAR DEPENDENCIES:") : j < k
               /\ Cardinality(Places("CIRCULAR DEPENDENCIES:")) =
                      IF detect_circular_dependencies(imports_by_file) # <<>> THEN 1 ELSE 0

\* In a project whose files import no cycle, the maps of two files that
\* import each other are assigned by hand: the text ends with the section of
\* the cycle.
C18_CycleAssignedByHand ==
    /\ call.op = "generate_adjacency_list"
    /\ fs = EndToEndLayout
    /\ CurrentMaps = CircularTestMaps
    /\ Lines[Len(Lines) - 1] = "CIRCULAR DEPENDENCIES:"
    /\ Lines[Len(Lines)] = "1. a.py -> b.py -> a.py"

\* The places of the lines of a diagram that declare a node: identifier,
\* then the label between [" and "];
NodePlaces ==
    {i \in 1..Len(Lines) : StartsWith(Lines[i], "  ") /\ EndsWith(Lines[i], "\"];")}

\* The identifier and the label of the node a line declares.
NodeIdentifier(line) == SubSeq(line, 3, FindFrom(line, "[", 1) - 1)

NodeLabel(line) == SubSeq(line, FindFrom(line, "[", 1) + 2, Len(line) - 3)

\* The files the maps name.
FilesOfMaps ==
    KeySet(imports_by_file) \cup KeySet(imported_by)
    \cup UNION {Range(imports_by_file[i][2]) : i \in 1..Len(imports_by_file)}
    \cup UNION {Range(imported_by[i][2]) : i \in 1..Len(imported_by)}

\* C19: generate_mermaid_diagram(max_files) returns the placeholder diagram
\* with the single node "No imports found" when the forward map is empty;
\* when it is not and max_files >= 0, the diagram declares at most max_files
\* nodes, each the node of one file of the maps, no file twice and no
\* identifier twice.
C19_DiagramNodes ==
    call.op = "generate_mermaid_diagram" =>
        /\ ~ret.raised
        /\ imports_by_file = EmptyDict =>
               Lines = <<"~~~mermaid", "graph TD;", "  A[No imports found];", "~~~">>
        /\ imports_by_file # EmptyDict /\ call.max_files >= 0 =>
               /\ Cardinality(NodePlaces) <= call.max_files
               /\ \A i \in NodePlaces :
                      \E file \in FilesOfMaps : NodeLabel(Lines[i]) = display_name(file)
               /\ \A file \in FilesOfMaps :
                      Cardinality({i \in NodePlaces :
                                      NodeLabel(Lines[i]) = display_name(file)}) <= 1
               /\ \A i, j \in NodePlaces :
                      i # j => NodeIdentifier(Lines[i]) # NodeIdentifier(Lines[j])

\* Of two files that import each other the diagram of one file declares one:
\* the selection held both and was cut to max_files.
C19_SelectionCut ==
    /\ call.op = "generate_mermaid_diagram"
    /\ call.max_files = 1
    /\ CurrentMaps = CircularTestMaps
    /\ important_files_of(CurrentMaps, call.max_files) = {"a.py", "b.py"}
    /\ Cardinality(NodePlaces) = 1
    /\ Lines[3] = "  N0[\"a.py\"];"

\* The maps of the result passed to create_snapshot.
PassedMaps ==
    Maps(call.import_analysis.imports_by_file, call.import_analysis.imported_by,
         call.import_analysis.external_imports)

\* C20: create_snapshot, given a result whose forward map is not empty,
\* returns; for the JSON format the metadata hold the result; for the text
\* and the markdown format the content holds the adjacency list of the
\* result, and for the markdown format with import_diagram the diagram of
\* the result, so the content of a result with an import does not read
\* "No imports found.".
C20_SnapshotEmbedsResult ==
    call.op = "create_snapshot" /\ call.import_analysis.imports_by_file # EmptyDict =>
        /\ ~ret.raised
        /\ call.output_format = "json" =>
               /\ ret.value.in_metadata
               /\ ret.value.import_analysis = call.import_analysis
        /\ call.output_format # "json" =>
               /\ Contains(ret.value.content, generate_adjacency_list(PassedMaps))
               /\ ~Contains(ret.value.content, "No imports found.")
               /\ call.output_format = "markdown" /\ call.import_diagram =>
                      ~Contains(ret.value.content, "No imports found]")

\* The result of the three files of which main.py imports two is passed for
\* the markdown format: the content reads "No imports found.".
C20_ResultRenderedEmpty ==
    /\ call.op = "create_snapshot"
    /\ call.output_format = "markdown"
    /\ ~call.import_diagram
    /\ GetOr(call.import_analysis.imports_by_file, "main.py", <<>>)
           = <<"utils.py", "helpers.py">>
    /\ ~ret.raised
    /\ ret.value.content = "## Import Relationships\n\n~~~\nNo imports found.\n~~~\n"

\* The targets the forward map lists for a file, none for a file that is no
\* key.
Imports(file) == Range(GetOr(imports_by_file, file, <<>>))

\* cycle is a closed walk of the forward map that repeats its first file only.
ClosedWalk(cycle) ==
    /\ Len(cycle) >= 2
    /\ cycle[1] = cycle[Len(cycle)]
    /\ \A i \in 1..(Len(cycle) - 1) : cycle[i + 1] \in Imports(cycle[i])
    /\ \A i, j \in 1..(Len(cycle) - 1) : i # j => cycle[i] # cycle[j]

\* C21: every cycle that cycle detection reports has at least two entries,
\* begins and ends with the same file, steps along the forward map from each
\* entry to the next, and repeats no file but the closing one; the back edge
\* c -> b met with the stack [a, b, c] is reported as [b, c, b].
C21_ReportedCyclesAreClosedWalks ==
    call.op = "_detect_circular_dependencies" =>
        /\ ~ret.raised
        /\ \A i \in 1..Len(ret.value) : ClosedWalk(ret.value[i])
        /\ imports_by_file = << <<"a.py", <<"b.py">>>>, <<"b.py", <<"c.py">>>>,
                               <<"c.py", <<"b.py">>>> >>
               => ret.value = << <<"b.py", "c.py", "b.py">> >>

\* The back edge c -> b has been met with the stack [a, b, c].
C21_BackEdgeIntoTheStack ==
    /\ call.op = "_detect_circular_dependencies"
    /\ imports_by_file = << <<"a.py", <<"b.py">>>>, <<"b.py", <<"c.py">>>>,
                            <<"c.py", <<"b.py">>>> >>
    /\ ret.value = << <<"b.py", "c.py", "b.py">> >>

\* A list without its repeated entries, the first occurrences kept.
WithoutRepeats(q) == SelectSeq([i \in 1..Len(q) |-> <<i, q[i]>>],
                               LAMBDA e : \A j \in 1..(e[1] - 1) : q[j] # e[2])

\* The forward map with the repeated targets removed from every list.
WithoutRepeatedTargets(forward) ==
    [i \in 1..Len(forward) |->
        <<forward[i][1],
          [j \in 1..Len(WithoutRepeats(forward[i][2])) |->
              WithoutRepeats(forward[i][2])[j][2]]>>]

\* C22: cycle detection and orphan detection return for a forward map the
\* lists they return for the map without the repeated targets of each
\* importer.
C22_MultiplicityIrrelevant ==
    /\ call.op = "_detect_circular_dependencies" =>
           ret.value = detect_circular_dependencies(WithoutRepeatedTargets(imports_by_file))
    /\ call.op = "_find_orphaned_files" =>
           ret.value = find_orphaned_files(fs, root_path,
                                           WithoutRepeatedTargets(imports_by_file),
                                           call.files)

\* b.py imports a.py twice and a.py imports b.py: the one back edge is
\* reported twice.
C22_BackEdgeReportedTwice ==
    /\ call.op = "_detect_circular_dependencies"
    /\ imports_by_file = << <<"a.py", <<"b.py">>>>, <<"b.py", <<"a.py", "a.py">>>> >>
    /\ ret.value = << <<"a.py", "b.py", "a.py">>, <<"a.py", "b.py", "a.py">> >>

\* The path followed by an extension.
Appended(target, ext) == Parent(target) \o <<Name(target) \o ext>>

\* C23: when the normalized path of a relative JS/TS import is no existing
\* file, the candidate tried for each extension is the whole normalized path
\* followed by the extension, also when its last segment holds a dot, and
\* the first candidate that exists is the result; index files are tried
\* only without one.
C23_ExtensionsAppended ==
    call.op = "_js_import_to_file_path" /\ StartsWith(call.import_path, ".") =>
        LET target == JsNormalized(call.file_path, call.import_path)
            appended == FirstCandidate(
                [i \in 1..5 |-> Appended(target,
                                    <<".js", ".jsx", ".ts", ".tsx", ".json">>[i])])
            index == FirstCandidate(
                [i \in 1..5 |-> target \o
                     << "index" \o <<".js", ".jsx", ".ts", ".tsx", ".json">>[i] >>])
        IN  target \notin Files(fs) =>
                /\ ~ret.raised
                /\ ret.value = IF appended # None THEN appended ELSE index

\* ./foo.bar is resolved where foo.bar.js exists and foo.js does not: the
\* result is None.
C23_DottedNameNotFound ==
    /\ call.op = "_js_import_to_file_path"
    /\ call.import_path = "./foo.bar"
    /\ call.file_path = Path("/r/a.js")
    /\ Files(fs) = {Path("/r/foo.bar.js")}
    /\ ret.value = None

\* The files the diagram declares as nodes, and the identifier it gives one.
DeclaredFiles ==
    {file \in FilesOfMaps : \E i \in NodePlaces : NodeLabel(Lines[i]) = display_name(file)}

IdentifierOf(file) ==
    NodeIdentifier(Lines[CHOOSE i \in NodePlaces : NodeLabel(Lines[i]) = display_name(file)])

\* The edge lines a diagram with these nodes has for the entries of a forward
\* map whose importer and imported file are both declared, entry by entry.
RECURSIVE EdgesBetweenDeclared(_)
EdgesBetweenDeclared(forward) ==
    IF Len(forward) = 0 THEN <<>>
    ELSE LET file == Head(forward)[1]
             shown == IF file \in DeclaredFiles
                      THEN SelectSeq(Head(forward)[2], LAMBDA f : f \in DeclaredFiles)
                      ELSE <<>>
         IN  [i \in 1..Len(shown) |->
                 "  " \o IdentifierOf(file) \o " --> " \o IdentifierOf(shown[i]) \o ";"]
             \o EdgesBetweenDeclared(Tail(forward))

\* C24: the edge lines of a diagram are the entries of the forward map whose
\* importer and imported file are both declared nodes of it, one line per
\* entry and a repeated entry repeated, between the identifiers of the two
\* nodes; an entry with an endpoint that is no node gives no line.
C24_EdgesBetweenDeclaredNodes ==
    call.op = "generate_mermaid_diagram" =>
        /\ ~ret.raised
        /\ SelectSeq(Lines, LAMBDA line : Contains(line, " --> "))
               = EdgesBetweenDeclared(imports_by_file)

\* a.py names b.py twice and c.py once and b.py names a.py: the diagram of
\* two files that declares a.py and b.py has two lines for the repeated
\* entry, one for the entry of b.py, and none for the entry with c.py.
C24_DroppedAndRepeatedEdges ==
    /\ call.op = "generate_mermaid_diagram"
    /\ CurrentMaps = RepeatedEdgeMaps
    /\ call.max_files = 2
    /\ DeclaredFiles = {"a.py", "b.py"}
    /\ SelectSeq(Lines, LAMBDA line : Contains(line, " --> "))
           = << "  " \o IdentifierOf("a.py") \o " --> " \o IdentifierOf("b.py") \o ";",
                "  " \o IdentifierOf("a.py") \o " --> " \o IdentifierOf("b.py") \o ";",
                "  " \o IdentifierOf("b.py") \o " --> " \o IdentifierOf("a.py") \o ";" >>

\* The label of a path: the path of at most thirty characters, and the
\* first and the last segment of a longer one around "/.../".
ShortenedLabel(file) ==
    IF Len(file) <= 30 THEN file
    ELSE Split(file, "/")[1] \o "/.../" \o Split(file, "/")[Len(Split(file, "/"))]

\* C25: the label of every node of a diagram is the path of a file of the
\* maps when the path has at most 30 characters, and its first and last
\* segment around "/.../" when it has more, whatever the number of its
\* segments.
C25_LabelsShortenedOverThirty ==
    call.op = "generate_mermaid_diagram" =>
        \A i \in NodePlaces :
            \E file \in FilesOfMaps : NodeLabel(Lines[i]) = ShortenedLabel(file)

\* A path of 43 characters in two segments is the label of its node, whole.
C25_LongPathOfTwoSegments ==
    /\ call.op = "generate_mermaid_diagram"
    /\ CurrentMaps = LongNameMaps
    /\ call.max_files = 1
    /\ Len("components/AnotherVeryLongComponentName.tsx") = 43
    /\ Lines[3] = "  N0[\"components/AnotherVeryLongComponentName.tsx\"];"

\* The analytics and the renderers.
ReadOperations ==
    {"_detect_circular_dependencies", "_find_orphaned_files", "generate_adjacency_list",
     "generate_mermaid_diagram"}

\* What a call of an analytic or a renderer gives on the maps and the files
\* as they are: the iteration order of a set of strings is that of the
\* process, the same in every call.
OutputOf(c) ==
    IF c.op = "_detect_circular_dependencies"
    THEN detect_circular_dependencies(imports_by_file)
    ELSE IF c.op = "_find_orphaned_files"
    THEN find_orphaned_files(fs, root_path, imports_by_file, c.files)
    ELSE IF c.op = "generate_adjacency_list"
    THEN generate_adjacency_list(CurrentMaps)
    ELSE generate_mermaid_diagram(CurrentMaps, c.max_files, c.listed)

\* C26: a call of cycle detection, orphan detection, generate_adjacency_list
\* or generate_mermaid_diagram leaves the forward map, the reverse map, the
\* external map and the root path as they were, whether analyze_project
\* built the maps or they were assigned by hand, and returns what the maps
\* and its arguments decide, so that every repetition of the call, after
\* any other of these calls, returns the same.
C26_AnalyticsReadOnly ==
    [][call'.op \in ReadOperations =>
          /\ UNCHANGED <<imports_by_file, imported_by, external_imports, root_path>>
          /\ ret' = Returned(OutputOf(call'))
          /\ (call' = call => ret' = ret)]_vars

\* The adjacency list of maps assigned by hand whose reverse map is not in
\* the order of its keys has been rendered, and the maps are as assigned.
C26_RenderedHandMaps ==
    /\ call.op = "generate_adjacency_list"
    /\ CurrentMaps = RepeatedEdgeMaps
    /\ Keys(imported_by) = <<"b.py", "c.py", "a.py">>
    /\ ~ret.raised
    /\ Contains(ret.value, "a.py <- b.py\nb.py <- a.py, a.py\nc.py <- a.py")

\* The files reached from the files of S along the forward map, S included.
RECURSIVE ReachableFrom(_)
ReachableFrom(S) ==
    LET further == S \cup UNION {Imports(file) : file \in S}
    IN  IF further = S THEN S ELSE ReachableFrom(further)

\* y is reached from x by one import or more.
Reaches(x, y) == y \in ReachableFrom(Imports(x))

\* The files that lie on a directed cycle of the forward map.
OnCycle == {file \in KeySet(imports_by_file) : Reaches(file, file)}

\* C27: on every forward map, with cycles, self-imports and targets that are
\* no keys, cycle detection returns, and the list it returns is empty
\* exactly when no file of the map lies on a directed cycle; a file that
\* imports itself does.
C27_EmptyIffAcyclic ==
    call.op = "_detect_circular_dependencies" =>
        /\ ~ret.raised
        /\ ret.value = <<>> <=> OnCycle = {}

\* Cycle detection has returned on a map with a self-import, a cycle of two
\* files met twice and a target that is no key.
C27_ReturnedOnCyclicMap ==
    /\ call.op = "_detect_circular_dependencies"
    /\ imports_by_file = << <<"a.py", <<"a.py", "b.py">>>>, <<"b.py", <<"a.py", "c.py">>>> >>
    /\ ~HasKey(imports_by_file, "c.py")
    /\ ~ret.raised
    /\ ret.value = << <<"a.py", "a.py">>, <<"a.py", "b.py", "a.py">> >>

\* C28 as stated: every file on a directed cycle of the forward map is in
\* one reported cycle at least, in every order of the keys and of the lists.
C28_EveryCycleFileReported ==
    call.op = "_detect_circular_dependencies" =>
        \A file \in OnCycle : \E i \in 1..Len(ret.value) : file \in Range(ret.value[i])

\* C28: every file on a directed cycle of the forward map reaches, and is
\* reached from, the files of one reported cycle at least, in every order of
\* the keys and of the lists; the file itself need not be in a report.
C28_CycleFileNearReport ==
    call.op = "_detect_circular_dependencies" =>
        \A file \in OnCycle :
            \E i \in 1..Len(ret.value) :
                \A reported \in Range(ret.value[i]) :
                    \/ reported = file
                    \/ Reaches(file, reported) /\ Reaches(reported, file)

\* c.py lies on the cycle a -> c -> b -> a; b.py, explored first, closes
\* the one cycle reported, and c.py then meets b.py explored.
C28_CycleFileNotReported ==
    /\ call.op = "_detect_circular_dependencies"
    /\ imports_by_file = << <<"a.py", <<"b.py", "c.py">>>>, <<"c.py", <<"b.py">>>>,
                            <<"b.py", <<"a.py">>>> >>
    /\ "c.py" \in OnCycle
    /\ ret.value = << <<"a.py", "b.py", "a.py">> >>

\* The path an import of a file resolves to: None for an import that is not
\* pre-classified as internal.
ResolvedImport(file_path, st) ==
    IF Suffix(file_path) \in {".py", ".pyi"}
    THEN IF st.kind \in {"import", "from"}
            /\ is_internal_import(fs, root_path, st.arg, file_path)
         THEN module_to_file_path(fs, root_path, st.arg, file_path)
         ELSE None
    ELSE IF Suffix(file_path) \in {".js", ".jsx", ".ts", ".tsx"}
            /\ st.kind \in {"import_from", "require", "import", "dynamic"}
    THEN js_import_to_file_path(fs, root_path, st.arg, file_path)
    ELSE None

\* The imports of a file that resolve to a path outside the root.
LeavingRoot(file_path) ==
    IF ~CanRead(fs, file_path) THEN {}
    ELSE {st.arg : st \in {st \in Range(fs.text[file_path].stmts) :
              /\ ResolvedImport(file_path, st) # None
              /\ ResolvedImport(file_path, st) # ValueError
              /\ ~IsRelativeTo(ResolvedImport(file_path, st), root_path)}}

\* The layout in which every file holds its text without the statements of
\* its imports that resolve to no file or to a path outside the root.
WithoutDroppedImports ==
    [fs EXCEPT !.text = [f \in DOMAIN @ |->
        [@[f] EXCEPT !.stmts =
            SelectSeq(@, LAMBDA st : st.arg \notin Unresolvable(f) \cup LeavingRoot(f))]]]

\* C29: an import that resolves to no file, or to a path outside the root,
\* contributes nothing and leaves the other internal imports and external
\* references of its file recorded as they are without it: analyze_file
\* gives the result it gives for the text without these statements.
C29_ImportsIndependent ==
    call.op = "analyze_file" =>
        /\ ~ret.raised
        /\ \E clean \in {analyze_file(WithoutDroppedImports, root_path, call.file_path)} :
               ret.value = [internal |-> clean.internal, external |-> clean.external]

\* top.py at the root imports d and, by "from .. import", a path above the
\* root: its result is empty, and without that statement it holds d.py.
C29_RootLeftLosesTheFile ==
    /\ call.op = "analyze_file"
    /\ call.file_path = Path("/r/top.py")
    /\ fs = FailingFilesProject.layout
    /\ LeavingRoot(call.file_path) = {".."}
    /\ ret.value = [internal |-> <<>>, external |-> {}]
    /\ analyze_file(WithoutDroppedImports, root_path, call.file_path).internal = <<"d.py">>

\* The maps are those analyze_project builds from the listing of the
\* project.
BuiltByAnalysis ==
    CurrentMaps = analyze_project(fs, root_path, Maps(EmptyDict, EmptyDict, EmptyDict),
                                  ProjectOf(fs).listing).maps

\* The graph has at most max_files files and no file has more than three
\* internal imports: nothing is cut from the selection of the nodes.
NothingCut ==
    /\ imports_by_file # EmptyDict
    /\ Cardinality(FilesOfMaps) <= call.max_files
    /\ \A i \in 1..Len(imports_by_file) : Len(imports_by_file[i][2]) <= 3

\* The number of entries of the forward map between files of S.
EntriesWithin(S) ==
    Cardinality({e \in UNION {{<<i, j>> : j \in 1..Len(imports_by_file[i][2])} :
                                  i \in 1..Len(imports_by_file)} :
        /\ imports_by_file[e[1]][1] \in S
        /\ imports_by_file[e[1]][2][e[2]] \in S})

\* C30 as stated: when nothing is cut, the diagram of the graph
\* analyze_project built declares every file of the graph and has an edge
\* line for every entry of the forward map.
C30_EveryFileAndEdgeShown ==
    call.op = "generate_mermaid_diagram" /\ BuiltByAnalysis /\ NothingCut =>
        /\ DeclaredFiles = FilesOfMaps
        /\ Len(SelectSeq(Lines, LAMBDA line : Contains(line, " --> ")))
               = EntriesWithin(FilesOfMaps)

\* C30: when nothing is cut, the diagram declares the files that have an
\* importer and the files those import, and no other file, for maps that
\* analyze_project built and for maps assigned by hand; it has an edge line
\* for every entry of the forward map between declared files, and none for
\* the entries of a file that is not declared, as is a file that nothing
\* imports unless a file with an importer imports it.
C30_ImportedFilesAndTheirImports ==
    call.op = "generate_mermaid_diagram" /\ NothingCut =>
        /\ DeclaredFiles = KeySet(imported_by)
                               \cup UNION {Imports(file) : file \in KeySet(imported_by)}
        /\ Len(SelectSeq(Lines, LAMBDA line : Contains(line, " --> ")))
               = EntriesWithin(DeclaredFiles)

\* The diagram of main.py -> utils.py, helpers.py as analyze_project built
\* it declares utils.py and helpers.py and has no edge line.
C30_ImporterWithoutNode ==
    /\ call.op = "generate_mermaid_diagram"
    /\ BuiltByAnalysis
    /\ fs = EndToEndLayout
    /\ NothingCut
    /\ call.max_files = 3
    /\ Get(imports_by_file, "main.py") = <<"utils.py", "helpers.py">>
    /\ DeclaredFiles = {"utils.py", "helpers.py"}
    /\ SelectSeq(Lines, LAMBDA line : Contains(line, " --> ")) = <<>>

=============================================================================
